---------------------------- MODULE Spec2Model ----------------------------
(***************************************************************************)
(* Westgate School backend: the authentication gateway (login, bearer      *)
(* token verification, role guard) and the status lifecycles of the        *)
(* entity stores (applications, messages, contacts, newsletter), as a      *)
(* state machine of HTTP requests.  One action is one request handled      *)
(* from its first middleware to its response.                              *)
(*                                                                         *)
(* Time is counted in days.  Every action leaves in `resp` the response    *)
(* it sent together with the few request facts the properties refer to.    *)
(***************************************************************************)
EXTENDS Integers, Sequences, FiniteSets, TLC

VARIABLES
    admins,        \* Admin collection: admin id -> document
    issued,        \* bearer tokens handed out by POST /auth/login
    now,           \* server clock, in days
    applications,  \* Application collection (set of documents)
    nextAppId,     \* next fresh _id of the Application collection
    messages,      \* Message collection (set of documents)
    nextMsgId,     \* next fresh _id of the Message collection
    contacts,      \* Contact collection (set of documents)
    nextContactId, \* next fresh _id of the Contact collection
    newsletters,   \* Newsletter collection (set of documents)
    nextNewsId,    \* next fresh _id of the Newsletter collection
    inflight,      \* requests that have read the store and have not yet written
    hits,          \* rate-limit store: per limiter, the entry of the tracked address
    quarter,       \* the server clock of the rate limiters, in quarter hours
    touched,       \* history: the stores the tracked address's last request read or wrote
    gallery,       \* Gallery collection (set of documents)
    nextGalleryId, \* next fresh _id of the Gallery collection
    assets,        \* the media host: public ids of the assets it holds
    nextAssetId,   \* the public id the media host gives its next upload
    viewing,       \* gallery requests that have read their item and have not yet saved it
    reqBody,       \* req.body of the request in hand, as the middleware chain left it
    failStreak,    \* history: wrong-password logins per account since its last reset
    numberLog,     \* history: the application numbers assigned, in submission order
    resp           \* the last response sent (and the request facts it echoes)

vars == << admins, issued, now, applications, nextAppId, messages, nextMsgId,
           contacts, nextContactId, newsletters, nextNewsId, inflight,
           hits, quarter, touched, gallery, nextGalleryId, assets, nextAssetId, viewing, reqBody,
           failStreak, numberLog, resp >>

authVars   == << admins, issued, failStreak >>
appVars    == << applications, nextAppId, numberLog >>
msgVars    == << messages, nextMsgId >>
publicVars == << contacts, nextContactId, newsletters, nextNewsId >>
limitVars  == << hits, quarter, touched >>
galleryVars == << gallery, nextGalleryId, assets, nextAssetId, viewing >>
reqVars    == << reqBody >>
sideVars   == << inflight, limitVars, galleryVars, reqVars >>

-----------------------------------------------------------------------------
(* Bounds of the model *)

MaxAuthTime == 1      \* days the clock advances in the authentication runs
MaxTokens   == 2      \* tokens issued in one run
MaxApps     == 2      \* application submissions stored in one run
MaxMsgs     == 1      \* messages stored in one run
MaxContacts == 1      \* contact submissions stored in one run
MaxNews     == 2      \* newsletter documents stored in one run
MaxAppTime  == 31     \* last day of the application runs
MaxMsgTime  == 1      \* last day of the message runs
MaxEmailsSent == 1    \* issues the mailer sends to one subscriber
MaxInflight == 2      \* requests under way at the same time
MaxQuarters == 5      \* quarter hours the limiter clock advances
MaxRefused  == 1      \* requests over the limit counted in one window
MaxAssets   == 2      \* uploads the media host accepts in one run
MaxPieces   == 3      \* pieces a request string is made of
MaxViews    == 2      \* views (downloads) counted for one gallery item

(* Program constants *)

TokenTTL         == 1     \* JWT_EXPIRES_IN default '24h'
DupWindowDays    == 30    \* duplicate-application window
YearDays         == 365   \* days of a calendar year (getFullYear)
MaxLoginAttempts == 3     \* configured lockout threshold of the Admin model

None == "none"

-----------------------------------------------------------------------------
(* Admin accounts *)

AdminIds == {"a1", "a2"}

Username(a) == IF a = "a1" THEN "admin" ELSE "editor"
Email(a)    == IF a = "a1" THEN "admin@westgate.ac.ke" ELSE "editor@westgate.ac.ke"

\* what a client may type in the username field of the login form
LoginNames == {"admin", "ADMIN@westgate.ac.ke", "Editor", "nobody", "ab"}

\* String.prototype.toLowerCase on the names above
toLowerCase(s) ==
    CASE s = "ADMIN@westgate.ac.ke" -> "admin@westgate.ac.ke"
      [] s = "Editor"               -> "editor"
      [] s = "Amina@Mail.KE"        -> "amina@mail.ke"
      [] OTHER                      -> s

Passwords == {"westgate2024", "admin123", "wrongpw", "short"}

\* loginValidation: username 3..50 characters, password at least 6
loginValidation(username, password) ==
    /\ username # "ab"
    /\ password # "short"

\* Admin.findOne({$or: [{username}, {email}]})
findAdmin(name) ==
    { a \in AdminIds : /\ admins[a].exists
                       /\ \/ Username(a) = name
                          \/ Email(a) = name }

\* adminSchema.methods.comparePassword
comparePassword(adm, password) == adm.password = password

\* adminSchema.methods.incLoginAttempts
incLoginAttempts(adm) ==
    LET n == adm.loginAttempts + 1
    IN  [adm EXCEPT !.loginAttempts = n,
                    !.isLocked = (adm.isLocked \/ n >= MaxLoginAttempts)]

\* adminSchema.methods.resetLoginAttempts
resetLoginAttempts(adm) == [adm EXCEPT !.loginAttempts = 0]

-----------------------------------------------------------------------------
(* Requests and responses *)

NoCred  == [kind |-> "absent",  adminId |-> None, exp |-> 0]
BadCred == [kind |-> "invalid", adminId |-> None, exp |-> 0]

\* op: the route; code, err: HTTP status and error code of the response;
\* who: the account the handler acted for or on; id: the document addressed
\* or created; note: a fact of the request body; cred: the Authorization
\* header of the request; token: the token in the response body; prev: the
\* document findById loaded, when the handler went on to write it; mail: the
\* outcome of each email send the handler made, in order; bad: the fields of
\* the request body that break a rule; errors: the entries of the errors
\* list of the response.  A request
\* that verifyToken turns away echoes neither id nor body: the handler that
\* reads them never runs.
Resp(op, code, err, who, id, note) ==
    [op |-> op, code |-> code, err |-> err, who |-> who, id |-> id, note |-> note,
     cred |-> NoCred, token |-> NoCred, prev |-> None, mail |-> << >>,
     bad |-> {}, errors |-> {}]

NoResp == Resp("none", 0, None, None, 0, None)

\* the response of a public form route: it echoes the fields of the body
\* that break a rule
FormResp(body, op, code, err, who, id, note) ==
    [Resp(op, code, err, who, id, note) EXCEPT !.bad = body.bad]

\* a request body whose fields `bad` break a rule of the route
WithBad(b, bad) ==
    [f \in DOMAIN b \cup {"bad"} |->
       IF f = "bad" THEN bad ELSE IF f = "valid" THEN bad = {} ELSE b[f]]

\* a request body that is either well formed or has a malformed email
Body(b) == WithBad(b, IF b.valid THEN {} ELSE {"email"})

\* validationResult(req).array() of express-validator: every rule chain of
\* the routes has one validator, so a field that fails gives one entry
errorsArray(body) == { [field |-> f, message |-> "invalid"] : f \in body.bad }

\* error.details.map(detail => ({field, message})) of the Joi middlewares,
\* run with abortEarly: false
joiErrors(body) == { [field |-> f, message |-> "invalid"] : f \in body.bad }

\* the response of a route behind verifyToken
AuthResp(op, cred, code, err, who, id, note) ==
    [Resp(op, code, err, who, id, note) EXCEPT !.cred = cred]

-----------------------------------------------------------------------------
(* middleware/auth.js *)

\* generateToken: a signed { adminId } with an expiry
generateToken(adminId) ==
    [kind |-> "jwt", adminId |-> adminId, exp |-> now + TokenTTL]

\* what a client can put in the Authorization header
Creds == {NoCred, BadCred} \cup issued

\* verifyToken with the active check left out
verifyTokenNoActiveCheck(cred) ==
    IF cred.kind = "absent" THEN [ok |-> FALSE, code |-> 401, err |-> "NO_TOKEN", admin |-> None]
    ELSE IF cred.kind = "invalid" THEN [ok |-> FALSE, code |-> 401, err |-> "INVALID_TOKEN", admin |-> None]
    ELSE IF now >= cred.exp THEN [ok |-> FALSE, code |-> 401, err |-> "TOKEN_EXPIRED", admin |-> None]
    ELSE IF ~admins[cred.adminId].exists
         THEN [ok |-> FALSE, code |-> 401, err |-> "ADMIN_NOT_FOUND", admin |-> None]
    ELSE [ok |-> TRUE, code |-> 200, err |-> None, admin |-> cred.adminId]

\* verifyToken with a lockout check added
verifyTokenChecksLock(cred) ==
    IF cred.kind = "absent" THEN [ok |-> FALSE, code |-> 401, err |-> "NO_TOKEN", admin |-> None]
    ELSE IF cred.kind = "invalid" THEN [ok |-> FALSE, code |-> 401, err |-> "INVALID_TOKEN", admin |-> None]
    ELSE IF now >= cred.exp THEN [ok |-> FALSE, code |-> 401, err |-> "TOKEN_EXPIRED", admin |-> None]
    ELSE IF ~admins[cred.adminId].exists
         THEN [ok |-> FALSE, code |-> 401, err |-> "ADMIN_NOT_FOUND", admin |-> None]
    ELSE IF ~admins[cred.adminId].isActive
         THEN [ok |-> FALSE, code |-> 401, err |-> "ACCOUNT_DEACTIVATED", admin |-> None]
    ELSE IF admins[cred.adminId].isLocked
         THEN [ok |-> FALSE, code |-> 423, err |-> "ACCOUNT_LOCKED", admin |-> None]
    ELSE [ok |-> TRUE, code |-> 200, err |-> None, admin |-> cred.adminId]

\* verifyToken: the result of the middleware, next() being ok = TRUE
verifyToken(cred) ==
    IF cred.kind = "absent" THEN [ok |-> FALSE, code |-> 401, err |-> "NO_TOKEN", admin |-> None]
    ELSE IF cred.kind = "invalid" THEN [ok |-> FALSE, code |-> 401, err |-> "INVALID_TOKEN", admin |-> None]
    ELSE IF now >= cred.exp THEN [ok |-> FALSE, code |-> 401, err |-> "TOKEN_EXPIRED", admin |-> None]
    ELSE IF ~admins[cred.adminId].exists
         THEN [ok |-> FALSE, code |-> 401, err |-> "ADMIN_NOT_FOUND", admin |-> None]
    ELSE IF ~admins[cred.adminId].isActive
         THEN [ok |-> FALSE, code |-> 401, err |-> "ACCOUNT_DEACTIVATED", admin |-> None]
    ELSE [ok |-> TRUE, code |-> 200, err |-> None, admin |-> cred.adminId]

\* optionalAuth without the active check
optionalAuthNoActiveCheck(cred) ==
    IF cred.kind # "jwt" THEN None
    ELSE IF now >= cred.exp THEN None
    ELSE IF ~admins[cred.adminId].exists THEN None
    ELSE cred.adminId

\* optionalAuth: req.admin when the middleware calls next() (None: not set).
\* No header, a header that is not a bearer token, a token jwt.verify
\* rejects, an account that is gone or inactive: all go on without req.admin
optionalAuth(cred) ==
    IF cred.kind # "jwt" THEN None
    ELSE IF now >= cred.exp THEN None
    ELSE IF ~admins[cred.adminId].exists THEN None
    ELSE IF ~admins[cred.adminId].isActive THEN None
    ELSE cred.adminId

Roles == {"admin", "super_admin"}

\* requireRole that lets every authenticated admin through
requireRoleAnyAdmin(role, requiredRole) == TRUE

\* requireRole(requiredRole) for an authenticated admin of role `role`:
\* TRUE is next(), FALSE is 403 INSUFFICIENT_PERMISSIONS
requireRole(role, requiredRole) ==
    IF role = "super_admin" THEN TRUE
    ELSE role = requiredRole

-----------------------------------------------------------------------------
(* routes/auth.js *)

\* the checks of POST /login in the order password, lockout, active
loginChecksPasswordFirst(adm, password) ==
    IF ~comparePassword(adm, password) THEN "INVALID_CREDENTIALS"
    ELSE IF adm.isLocked THEN "ACCOUNT_LOCKED"
    ELSE IF ~adm.isActive THEN "ACCOUNT_DEACTIVATED"
    ELSE None

\* the checks POST /login makes on the account it found, in order
loginChecks(adm, password) ==
    IF adm.isLocked THEN "ACCOUNT_LOCKED"
    ELSE IF ~adm.isActive THEN "ACCOUNT_DEACTIVATED"
    ELSE IF ~comparePassword(adm, password) THEN "INVALID_CREDENTIALS"
    ELSE None

\* a failed password that is not counted
loginFailureNotCounted(adm) == adm

\* POST /login, wrong password: the account after the handler
loginFailure(adm) == incLoginAttempts(adm)

\* POST /login, right password: the account after the handler
loginSuccess(adm) ==
    LET a1 == IF adm.loginAttempts > 0 THEN resetLoginAttempts(adm) ELSE adm
    IN  [a1 EXCEPT !.lastLogin = now]

LoginStatus(err) ==
    CASE err = "ACCOUNT_LOCKED"      -> 423
      [] err = "ACCOUNT_DEACTIVATED" -> 401
      [] err = "INVALID_CREDENTIALS" -> 401
      [] OTHER                       -> 200

\* POST /api/auth/login
Login(username, password) ==
    /\ UNCHANGED << now, appVars, msgVars, publicVars, sideVars >>
    /\ IF ~loginValidation(username, password)
       THEN /\ resp' = Resp("login", 400, "VALIDATION", None, 0, None)
            /\ UNCHANGED authVars
       ELSE LET found == findAdmin(toLowerCase(username))
            IN  IF found = {}
                THEN /\ resp' = Resp("login", 401, "INVALID_CREDENTIALS", None, 0, None)
                     /\ UNCHANGED authVars
                ELSE \E a \in found :
                       LET adm   == admins[a]
                           err   == loginChecks(adm, password)
                           pwOk  == IF comparePassword(adm, password) THEN "pwOk" ELSE "pwBad"
                           tok   == IF err = None THEN generateToken(a) ELSE NoCred
                       IN  /\ resp' = [Resp("login", LoginStatus(err), err, a, 0, pwOk)
                                          EXCEPT !.token = tok]
                           /\ IF err = None
                              THEN /\ generateToken(a) \in issued \/ Cardinality(issued) < MaxTokens
                                   /\ admins' = [admins EXCEPT ![a] = loginSuccess(adm)]
                                   /\ issued' = issued \cup {generateToken(a)}
                                   /\ failStreak' = [failStreak EXCEPT ![a] = 0]
                              ELSE IF err = "INVALID_CREDENTIALS"
                              THEN /\ admins' = [admins EXCEPT ![a] = loginFailure(adm)]
                                   /\ failStreak' = [failStreak EXCEPT ![a] = @ + 1]
                                   /\ UNCHANGED issued
                              ELSE UNCHANGED authVars

\* POST /api/auth/verify-token, POST /api/auth/logout, GET /api/auth/profile
AuthRead(op, cred) ==
    LET v == verifyToken(cred)
    IN  /\ resp' = AuthResp(op, cred, v.code, v.err, v.admin, 0, None)
        /\ UNCHANGED << now, authVars, appVars, msgVars, publicVars, sideVars >>

\* PUT /api/auth/change-password
ChangePassword(cred, currentPassword, newPassword) ==
    LET v == verifyToken(cred)
    IN  /\ UNCHANGED << now, issued, failStreak, appVars, msgVars, publicVars, sideVars >>
        /\ IF ~v.ok
           THEN /\ resp' = AuthResp("change-password", cred, v.code, v.err, None, 0, None)
                /\ UNCHANGED admins
           ELSE IF currentPassword = "short" \/ newPassword = "short"
           THEN /\ resp' = AuthResp("change-password", cred, 400, "VALIDATION", v.admin, 0, None)
                /\ UNCHANGED admins
           ELSE IF ~comparePassword(admins[v.admin], currentPassword)
           THEN /\ resp' = AuthResp("change-password", cred, 400, "INVALID_CURRENT_PASSWORD", v.admin, 0, None)
                /\ UNCHANGED admins
           ELSE /\ resp' = AuthResp("change-password", cred, 200, None, v.admin, 0, None)
                /\ admins' = [admins EXCEPT ![v.admin].password = newPassword]

-----------------------------------------------------------------------------
(* Operations on the Admin collection outside the HTTP API *)

\* scripts/migrate-admin-password.js: reset the password of 'admin' and unlock it
MigrateAdminPassword ==
    /\ admins["a1"].exists
    /\ admins' = [admins EXCEPT !["a1"].password = "admin123",
                                !["a1"].isLocked = FALSE,
                                !["a1"].loginAttempts = 0,
                                !["a1"].lastLogin = -1]
    /\ failStreak' = [failStreak EXCEPT !["a1"] = 0]
    /\ resp' = Resp("script", 0, None, "a1", 0, None)
    /\ UNCHANGED << now, issued, appVars, msgVars, publicVars, sideVars >>

\* direct provisioning: an account's active flag is cleared
DeactivateAdmin(a) ==
    /\ admins[a].exists /\ admins[a].isActive
    /\ admins' = [admins EXCEPT ![a].isActive = FALSE]
    /\ resp' = Resp("provision", 0, None, a, 0, None)
    /\ UNCHANGED << now, issued, failStreak, appVars, msgVars, publicVars, sideVars >>

\* direct provisioning: an account is removed
DeleteAdmin(a) ==
    /\ admins[a].exists
    /\ admins' = [admins EXCEPT ![a].exists = FALSE]
    /\ resp' = Resp("provision", 0, None, a, 0, None)
    /\ UNCHANGED << now, issued, failStreak, appVars, msgVars, publicVars, sideVars >>

\* the clock advances by d days, up to day `limit`
Tick(d, limit) ==
    /\ now + d <= limit
    /\ now' = now + d
    /\ resp' = NoResp
    /\ UNCHANGED << authVars, appVars, msgVars, publicVars, sideVars >>

-----------------------------------------------------------------------------
(* models/Application.js and routes/applications.js *)

\* email addresses a client may send
RawEmails == {"amina@mail.ke", "Amina@Mail.KE", "brian@mail.ke"}

\* express-validator normalizeEmail() on the addresses above
normalizeEmail(e) == IF e = "Amina@Mail.KE" THEN "amina@mail.ke" ELSE e

\* createApplicationValidation: the program values the route admits
RoutePrograms == {"playgroup", "nursery", "pre-primary", "primary"}

\* applicationSchema.program enum
SchemaPrograms == {"early-years", "primary", "secondary"}

\* applicationSchema.status enum
AppStatuses == {"pending", "review", "approved", "rejected"}

\* request bodies of POST /api/applications: `valid` stands for the twelve
\* other field rules of createApplicationValidation; status is a field the
\* route does not validate (None: not sent), and so are reviewedBy (an
\* ObjectId) and reviewedAt (a date; -1: not sent)
AppBodies ==
    { Body(b) : b \in
        [email : RawEmails, valid : BOOLEAN, program : {"primary", "nursery", "secondary"},
         status : {None, "approved", "archived"},
         reviewedBy : {None, "a1"}, reviewedAt : {-1, 7}] }

\* a body with no field beyond those of the application form
PlainApplication(email, valid, program) ==
    Body([email |-> email, valid |-> valid, program |-> program, status |-> None,
          reviewedBy |-> None, reviewedAt |-> -1])

createApplicationValidation(body) ==
    /\ body.valid
    /\ body.program \in RoutePrograms

\* new Date().getFullYear(), counted from the year of day 0
Year(t) == t \div YearDays

\* Application.findOne({email, createdAt: {$gte: now - 30 days}})
existingApp(email) ==
    { a \in applications : a.email = email /\ a.createdAt >= now - DupWindowDays }

\* applicationSchema.pre('save') for a new document: WG<year><count + 1>
nextApplicationNumber ==
    LET count == Cardinality({ a \in applications : Year(a.createdAt) = Year(now) })
    IN  [year |-> Year(now), seq |-> count + 1]

\* the pre('save') hook without its isNew test
preSaveAlways(doc, isNew) == [doc EXCEPT !.applicationNumber = nextApplicationNumber]

\* applicationSchema.pre('save')
preSave(doc, isNew) ==
    IF isNew THEN [doc EXCEPT !.applicationNumber = nextApplicationNumber] ELSE doc

\* new Application({...req.body, source: 'website'}) with the schema
\* defaults, as the first save() makes it
newApplication(body) ==
    preSave([id |-> nextAppId,
             email |-> normalizeEmail(body.email),
             program |-> body.program,
             status |-> IF body.status = None THEN "pending" ELSE body.status,
             createdAt |-> now,
             applicationNumber |-> [year |-> 0, seq |-> 0],
             reviewedBy |-> body.reviewedBy,
             reviewedAt |-> body.reviewedAt], TRUE)

\* schema validation of document.save()
applicationSchemaValid(doc) ==
    /\ doc.program \in SchemaPrograms
    /\ doc.status \in AppStatuses

\* the unique index on applicationNumber admits the insert
applicationNumberFree(doc) ==
    \A a \in applications : a.applicationNumber # doc.applicationNumber

\* POST /api/applications
postApplication(body) ==
    LET doc == newApplication(body)
        echo == body
    IN  /\ UNCHANGED << now, authVars, msgVars, publicVars, inflight, galleryVars, reqVars >>
        /\ IF ~createApplicationValidation(body)
           THEN /\ resp' = [FormResp(body, "POST /applications", 400, "VALIDATION", None, 0, echo)
                                EXCEPT !.errors = errorsArray(body)]
                /\ UNCHANGED appVars
           ELSE IF existingApp(normalizeEmail(body.email)) # {}
           THEN /\ resp' = FormResp(body, "POST /applications", 409, "DUPLICATE_APPLICATION", None, 0, echo)
                /\ UNCHANGED appVars
           ELSE IF ~applicationSchemaValid(doc) \/ ~applicationNumberFree(doc)
           THEN /\ resp' = FormResp(body, "POST /applications", 500, "APPLICATION_CREATION_ERROR", None, 0, echo)
                /\ UNCHANGED appVars
           ELSE /\ nextAppId <= MaxApps
                /\ applications' = applications \cup {doc}
                /\ nextAppId' = nextAppId + 1
                /\ numberLog' = Append(numberLog, doc.applicationNumber)
                /\ resp' = FormResp(body, "POST /applications", 201, None, None, doc.id, echo)

\* POST /api/applications from an address that is under every limit
SubmitApplication(body) == postApplication(body) /\ UNCHANGED limitVars

\* the requests of POST /api/applications that are between two awaits
applying == { r \in inflight : r.route = "apply" }

\* POST /api/applications up to the answer of Application.findOne: a
\* duplicate is answered at once, any other request goes on to save()
ApplyBegin(body, tag) ==
    LET op == "POST /applications"
    IN  /\ createApplicationValidation(body)
        /\ \A r \in applying : r.tag # tag
        /\ UNCHANGED << now, authVars, appVars, msgVars, publicVars, limitVars, galleryVars, reqVars >>
        /\ IF existingApp(normalizeEmail(body.email)) # {}
           THEN /\ resp' = FormResp(body, op, 409, "DUPLICATE_APPLICATION", None, 0, body)
                /\ UNCHANGED inflight
           ELSE /\ Cardinality(inflight) < MaxInflight
                /\ inflight' = inflight \cup
                     {[route |-> "apply", tag |-> tag, body |-> body, stage |-> "checked",
                       number |-> [year |-> 0, seq |-> 0]]}
                /\ resp' = NoResp

\* application.save() up to the answer of countDocuments in the pre('save')
\* hook: schema validation, then the number from the count as it is now
ApplyCount(r) ==
    LET op == "POST /applications"
    IN  /\ r \in applying /\ r.stage = "checked"
        /\ UNCHANGED << now, authVars, appVars, msgVars, publicVars, limitVars, galleryVars, reqVars >>
        /\ IF ~applicationSchemaValid(newApplication(r.body))
           THEN /\ inflight' = inflight \ {r}
                /\ resp' = FormResp(r.body, op, 500, "APPLICATION_CREATION_ERROR", None, 0, r.body)
           ELSE /\ inflight' = (inflight \ {r}) \cup
                     {[r EXCEPT !.stage = "counted", !.number = nextApplicationNumber]}
                /\ resp' = NoResp

\* application.save() from the hook's next() on: the insert meets the unique
\* index on applicationNumber with the store as it is now
ApplyEnd(r) ==
    LET op  == "POST /applications"
        doc == [newApplication(r.body) EXCEPT !.applicationNumber = r.number]
    IN  /\ r \in applying /\ r.stage = "counted"
        /\ inflight' = inflight \ {r}
        /\ UNCHANGED << now, authVars, msgVars, publicVars, limitVars, galleryVars, reqVars >>
        /\ IF ~applicationNumberFree(doc)
           THEN /\ resp' = FormResp(r.body, op, 500, "APPLICATION_CREATION_ERROR", None, 0, r.body)
                /\ UNCHANGED appVars
           ELSE /\ nextAppId <= MaxApps
                /\ applications' = applications \cup {doc}
                /\ nextAppId' = nextAppId + 1
                /\ numberLog' = Append(numberLog, doc.applicationNumber)
                /\ resp' = FormResp(r.body, op, 201, None, None, doc.id, r.body)

\* the documents a request can address: stored ones and one that is not
AppIds == 1..(MaxApps + 1)

AppById(id) == { a \in applications : a.id = id }

\* updateStatusValidation: body('status').isIn([...])
updateStatusValidation(status) == status \in {"pending", "review", "approved", "rejected"}

\* updateStatus that leaves a decided application alone
updateStatusForwardOnly(doc, status, reviewedBy) ==
    IF doc.status \in {"approved", "rejected"} THEN doc
    ELSE [doc EXCEPT !.status = status, !.reviewedBy = reviewedBy, !.reviewedAt = now]

\* applicationSchema.methods.updateStatus
updateStatus(doc, status, reviewedBy) ==
    preSave([doc EXCEPT !.status = status, !.reviewedBy = reviewedBy, !.reviewedAt = now],
            FALSE)

\* PUT /api/applications/:id/status
UpdateApplicationStatus(cred, id, status) ==
    LET v  == verifyToken(cred)
        op == "PUT /applications/:id/status"
    IN  /\ UNCHANGED << now, authVars, msgVars, publicVars, nextAppId, numberLog, sideVars >>
        /\ IF ~v.ok
           THEN /\ resp' = AuthResp(op, cred, v.code, v.err, None, 0, None)
                /\ UNCHANGED applications
           ELSE IF ~updateStatusValidation(status)
           THEN /\ resp' = AuthResp(op, cred, 400, "VALIDATION", v.admin, id, status)
                /\ UNCHANGED applications
           ELSE IF AppById(id) = {}
           THEN /\ resp' = AuthResp(op, cred, 404, "APPLICATION_NOT_FOUND", v.admin, id, status)
                /\ UNCHANGED applications
           ELSE \E doc \in AppById(id) :
                  /\ applications' = (applications \ {doc}) \cup {updateStatus(doc, status, v.admin)}
                  /\ resp' = [AuthResp(op, cred, 200, None, v.admin, id, status)
                                 EXCEPT !.prev = doc]

\* DELETE /api/applications/:id
DeleteApplication(cred, id) ==
    LET v  == verifyToken(cred)
        op == "DELETE /applications/:id"
    IN  /\ UNCHANGED << now, authVars, msgVars, publicVars, nextAppId, numberLog, sideVars >>
        /\ IF ~v.ok
           THEN /\ resp' = AuthResp(op, cred, v.code, v.err, None, 0, None)
                /\ UNCHANGED applications
           ELSE IF ~requireRole(admins[v.admin].role, "super_admin")
           THEN /\ resp' = AuthResp(op, cred, 403, "INSUFFICIENT_PERMISSIONS", v.admin, id, None)
                /\ UNCHANGED applications
           ELSE IF AppById(id) = {}
           THEN /\ resp' = AuthResp(op, cred, 404, "APPLICATION_NOT_FOUND", v.admin, id, None)
                /\ UNCHANGED applications
           ELSE /\ applications' = applications \ AppById(id)
                /\ resp' = AuthResp(op, cred, 200, None, v.admin, id, None)

-----------------------------------------------------------------------------
(* models/Message.js and routes/messages.js *)

\* messageSchema.status enum
MsgStatuses == {"unread", "read", "replied", "resolved"}

\* response texts an admin may send; "hi" is shorter than 10 characters
Texts == {"reply one", "reply two"}

\* request bodies of POST /api/messages: `valid` stands for the field rules of
\* createMessageValidation; status and response are fields the route does not
\* validate (None: not sent)
MsgBodies ==
    { Body(b) : b \in
        [valid : BOOLEAN, status : {None, "replied", "archived"}, response : {None, "reply one"},
         respondedBy : {None, "a1"}, respondedAt : {-1, 7}] }

\* a valid body with no field beyond those of the message form
PlainMessage ==
    Body([valid |-> TRUE, status |-> None, response |-> None, respondedBy |-> None,
          respondedAt |-> -1])

\* new Message({...req.body, source, ipAddress, userAgent}) with the schema defaults
newMessage(body) ==
    [id |-> nextMsgId,
     status |-> IF body.status = None THEN "unread" ELSE body.status,
     response |-> body.response,
     respondedBy |-> body.respondedBy,
     respondedAt |-> body.respondedAt]

\* schema validation of document.save()
messageSchemaValid(doc) == doc.status \in MsgStatuses

\* POST /api/messages
postMessage(body) ==
    LET doc == newMessage(body)
    IN  /\ UNCHANGED << now, authVars, appVars, publicVars, inflight, galleryVars, reqVars >>
        /\ IF ~body.valid
           THEN /\ resp' = [FormResp(body, "POST /messages", 400, "VALIDATION", None, 0, body.status)
                                EXCEPT !.errors = errorsArray(body)]
                /\ UNCHANGED msgVars
           ELSE IF ~messageSchemaValid(doc)
           THEN /\ resp' = FormResp(body, "POST /messages", 500, "MESSAGE_CREATION_ERROR", None, 0, body.status)
                /\ UNCHANGED msgVars
           ELSE /\ nextMsgId <= MaxMsgs
                /\ messages' = messages \cup {doc}
                /\ nextMsgId' = nextMsgId + 1
                /\ resp' = FormResp(body, "POST /messages", 201, None, None, doc.id, body.status)

\* POST /api/messages from an address that is under every limit
SubmitMessage(body) == postMessage(body) /\ UNCHANGED limitVars

MsgIds == 1..(MaxMsgs + 1)

MsgById(id) == { m \in messages : m.id = id }

\* markAsRead without its test of the current status
markAsReadAlways(doc) == [doc EXCEPT !.status = "read"]

\* messageSchema.methods.markAsRead
markAsRead(doc) == IF doc.status = "unread" THEN [doc EXCEPT !.status = "read"] ELSE doc

\* respond that stores the text and leaves the status alone
respondKeepStatus(doc, response, respondedBy) ==
    [doc EXCEPT !.response = response, !.respondedBy = respondedBy, !.respondedAt = now]

\* messageSchema.methods.respond
respond(doc, response, respondedBy) ==
    [doc EXCEPT !.response = response, !.respondedBy = respondedBy,
                !.respondedAt = now, !.status = "replied"]

\* GET /api/messages/:id
GetMessage(cred, id) ==
    LET v  == verifyToken(cred)
        op == "GET /messages/:id"
    IN  /\ UNCHANGED << now, authVars, appVars, publicVars, nextMsgId, sideVars >>
        /\ IF ~v.ok
           THEN /\ resp' = AuthResp(op, cred, v.code, v.err, None, 0, None)
                /\ UNCHANGED messages
           ELSE IF MsgById(id) = {}
           THEN /\ resp' = AuthResp(op, cred, 404, "MESSAGE_NOT_FOUND", v.admin, id, None)
                /\ UNCHANGED messages
           ELSE \E doc \in MsgById(id) :
                  /\ messages' = (messages \ {doc}) \cup {markAsRead(doc)}
                  /\ resp' = [AuthResp(op, cred, 200, None, v.admin, id, None)
                                 EXCEPT !.prev = doc]

\* GET /api/messages (list) and GET /api/messages/stats: find, countDocuments
\* and aggregate only
MessageRead(op, cred) ==
    LET v == verifyToken(cred)
    IN  /\ resp' = AuthResp(op, cred, v.code, v.err, v.admin, 0, None)
        /\ UNCHANGED << now, authVars, appVars, msgVars, publicVars, sideVars >>

\* request bodies of PUT /api/messages/:id (None: field not sent)
UpdateBodies ==
    [status : {None, "resolved", "replied", "archived"},
     response : {None, "reply one", "reply two"},
     respondedBy : {None, "a1"}, respondedAt : {-1, 7}]

\* the body {status: 'resolved'}
ResolveUpdate ==
    [status |-> "resolved", response |-> None, respondedBy |-> None, respondedAt |-> -1]

\* updateMessageValidation
updateMessageValidation(body) == body.status \in MsgStatuses \cup {None}

\* the copy loop of PUT /:id without its exception for 'response'
updateFieldsAll(doc, body) ==
    [doc EXCEPT !.status = IF body.status # None THEN body.status ELSE @,
                !.response = IF body.response # None THEN body.response ELSE @,
                !.respondedBy = IF body.respondedBy # None THEN body.respondedBy ELSE @,
                !.respondedAt = IF body.respondedAt # -1 THEN body.respondedAt ELSE @]

\* PUT /:id, "update other fields": every key of the body but 'response'
updateFields(doc, body) ==
    [doc EXCEPT !.status = IF body.status # None THEN body.status ELSE @,
                !.respondedBy = IF body.respondedBy # None THEN body.respondedBy ELSE @,
                !.respondedAt = IF body.respondedAt # -1 THEN body.respondedAt ELSE @]

\* PUT /:id: the document the handler saves
putMessage(doc, body, admin) ==
    IF body.response # None /\ doc.response = None
    THEN respond(doc, body.response, admin)
    ELSE updateFields(doc, body)

\* PUT /api/messages/:id
UpdateMessage(cred, id, body) ==
    LET v  == verifyToken(cred)
        op == "PUT /messages/:id"
    IN  /\ UNCHANGED << now, authVars, appVars, publicVars, nextMsgId, sideVars >>
        /\ IF ~v.ok
           THEN /\ resp' = AuthResp(op, cred, v.code, v.err, None, 0, None)
                /\ UNCHANGED messages
           ELSE IF ~updateMessageValidation(body)
           THEN /\ resp' = AuthResp(op, cred, 400, "VALIDATION", v.admin, id, body)
                /\ UNCHANGED messages
           ELSE IF MsgById(id) = {}
           THEN /\ resp' = AuthResp(op, cred, 404, "MESSAGE_NOT_FOUND", v.admin, id, body)
                /\ UNCHANGED messages
           ELSE \E doc \in MsgById(id) :
                  /\ messages' = (messages \ {doc}) \cup {putMessage(doc, body, v.admin)}
                  /\ resp' = [AuthResp(op, cred, 200, None, v.admin, id, body)
                                 EXCEPT !.prev = doc]

\* the body rule of PUT /:id/respond: 10 to 2000 characters after trim
respondValidation(text) == text \in Texts

\* PUT /api/messages/:id/respond
RespondMessage(cred, id, text) ==
    LET v  == verifyToken(cred)
        op == "PUT /messages/:id/respond"
    IN  /\ UNCHANGED << now, authVars, appVars, publicVars, nextMsgId, sideVars >>
        /\ IF ~v.ok
           THEN /\ resp' = AuthResp(op, cred, v.code, v.err, None, 0, None)
                /\ UNCHANGED messages
           ELSE IF ~respondValidation(text)
           THEN /\ resp' = AuthResp(op, cred, 400, "VALIDATION", v.admin, id, text)
                /\ UNCHANGED messages
           ELSE IF MsgById(id) = {}
           THEN /\ resp' = AuthResp(op, cred, 404, "MESSAGE_NOT_FOUND", v.admin, id, text)
                /\ UNCHANGED messages
           ELSE \E doc \in MsgById(id) :
                  /\ messages' = (messages \ {doc}) \cup {respond(doc, text, v.admin)}
                  /\ resp' = [AuthResp(op, cred, 200, None, v.admin, id, text)
                                 EXCEPT !.prev = doc]

\* DELETE /api/messages/:id
DeleteMessage(cred, id) ==
    LET v  == verifyToken(cred)
        op == "DELETE /messages/:id"
    IN  /\ UNCHANGED << now, authVars, appVars, publicVars, nextMsgId, sideVars >>
        /\ IF ~v.ok
           THEN /\ resp' = AuthResp(op, cred, v.code, v.err, None, 0, None)
                /\ UNCHANGED messages
           ELSE IF ~requireRole(admins[v.admin].role, "super_admin")
           THEN /\ resp' = AuthResp(op, cred, 403, "INSUFFICIENT_PERMISSIONS", v.admin, id, None)
                /\ UNCHANGED messages
           ELSE IF MsgById(id) = {}
           THEN /\ resp' = AuthResp(op, cred, 404, "MESSAGE_NOT_FOUND", v.admin, id, None)
                /\ UNCHANGED messages
           ELSE /\ messages' = messages \ MsgById(id)
                /\ resp' = AuthResp(op, cred, 200, None, v.admin, id, None)

-----------------------------------------------------------------------------
(* utils/email.js as the routes use it *)

\* a send either resolves or throws (sendContactNotification,
\* sendContactConfirmation and sendWelcomeEmail rethrow what they catch)
MailOutcomes == {"sent", "failed"}

\* POST /contact: two sends, each in a try of its own
ContactMail == [1 .. 2 -> MailOutcomes]

\* POST /contact/tour: two sends in one try, a failure of the first skips the second
TourMail == {<< "failed" >>, << "sent", "failed" >>, << "sent", "sent" >>}

\* POST /newsletter/subscribe: one send
WelcomeMail == {<< "sent" >>, << "failed" >>}

\* the handler with the try around its sends taken away
emailErrorRethrown(mail) == \A i \in 1 .. Len(mail) : mail[i] = "sent"

\* the try/catch around the sends: the handler goes on whatever they did
emailErrorCaught(mail) == TRUE

\* the response of a handler that has stored its record and made its sends
afterMail(r, mail) ==
    IF emailErrorCaught(mail) THEN [r EXCEPT !.mail = mail]
    ELSE [r EXCEPT !.mail = mail, !.code = 500, !.err = "SERVER_ERROR"]

-----------------------------------------------------------------------------
(* routes/contact.js, routes/newsletter.js and their models *)

\* request bodies of POST /api/contact and POST /api/contact/tour: `valid`
\* stands for the required fields; status is a field no rule names
ContactBodies == { Body(b) : b \in [valid : BOOLEAN, status : {None, "resolved"}] }

\* validateContact with stripUnknown: the body the handler sees
validateContact(body) == [body EXCEPT !.status = None]

\* new Contact({name, email, ..., source}) with the schema default status
newContact(body, inquiryType) ==
    [id |-> nextContactId, status |-> "new", inquiryType |-> inquiryType,
     notes |-> None, assignedTo |-> None, responseDate |-> -1]

\* POST /api/contact
postContact(body) ==
    LET value == validateContact(body)
    IN  /\ UNCHANGED << now, authVars, appVars, msgVars, newsletters, nextNewsId, inflight, galleryVars, reqVars >>
        /\ IF ~value.valid
           THEN /\ resp' = [FormResp(body, "POST /contact", 400, "VALIDATION", None, 0, body.status)
                                EXCEPT !.errors = joiErrors(body)]
                /\ UNCHANGED << contacts, nextContactId >>
           ELSE /\ nextContactId <= MaxContacts
                /\ contacts' = contacts \cup {newContact(value, "general")}
                /\ nextContactId' = nextContactId + 1
                /\ \E mail \in ContactMail :
                     resp' = afterMail(FormResp(body, "POST /contact", 201, None, None, nextContactId, body.status), mail)

\* POST /api/contact from an address that is under every limit
SubmitContact(body) == postContact(body) /\ UNCHANGED limitVars

\* POST /api/contact/tour
postTour(body) ==
    /\ UNCHANGED << now, authVars, appVars, msgVars, newsletters, nextNewsId, inflight, galleryVars, reqVars >>
    /\ IF ~body.valid
       THEN /\ resp' = FormResp(body, "POST /contact/tour", 400, "VALIDATION", None, 0, body.status)
            /\ UNCHANGED << contacts, nextContactId >>
       ELSE /\ nextContactId <= MaxContacts
            /\ contacts' = contacts \cup {newContact(body, "tour")}
            /\ nextContactId' = nextContactId + 1
            /\ \E mail \in TourMail :
                 resp' = afterMail(FormResp(body, "POST /contact/tour", 201, None, None, nextContactId, body.status), mail)

\* POST /api/contact/tour from an address that is under every limit
SubmitTour(body) == postTour(body) /\ UNCHANGED limitVars

NewsEmails == {"amina@mail.ke", "brian@mail.ke"}

ContactStatuses == {"new", "contacted", "follow-up", "resolved"}

ContactIds == 1..(MaxContacts + 1)

ContactById(id) == { c \in contacts : c.id = id }

\* request bodies of PUT /api/contact/admin/:id (None: field not sent; a
\* responseDate in the body is a field the handler never reads)
ContactUpdateBodies ==
    [status : {None, "contacted", "follow-up", "resolved", "closed"},
     notes : {None, "call back"}, assignedTo : {None, "a1"},
     responseDate : {-1, 7}]

\* the update that stamps the response date whatever the status
updateDataStampAlways(doc, body) ==
    [doc EXCEPT !.status = IF body.status # None THEN body.status ELSE @,
                !.notes = IF body.notes # None THEN body.notes ELSE @,
                !.assignedTo = IF body.assignedTo # None THEN body.assignedTo ELSE @,
                !.responseDate = now]

\* updateData of PUT /api/contact/admin/:id, applied to the stored document
updateData(doc, body) ==
    [doc EXCEPT !.status = IF body.status # None THEN body.status ELSE @,
                !.notes = IF body.notes # None THEN body.notes ELSE @,
                !.assignedTo = IF body.assignedTo # None THEN body.assignedTo ELSE @,
                !.responseDate = IF body.status = "contacted" THEN now ELSE @]

\* runValidators: the status enum of the Contact schema
contactSchemaValid(body) == body.status \in ContactStatuses \cup {None}

\* PUT /api/contact/admin/:id
PutContact(cred, id, body) ==
    LET v  == verifyToken(cred)
        op == "PUT /contact/admin/:id"
    IN  /\ UNCHANGED << now, authVars, appVars, msgVars, nextContactId, newsletters, nextNewsId, sideVars >>
        /\ IF ~v.ok
           THEN /\ resp' = AuthResp(op, cred, v.code, v.err, None, 0, body.status)
                /\ UNCHANGED contacts
           ELSE IF ~contactSchemaValid(body)
           THEN /\ resp' = AuthResp(op, cred, 500, "CONTACT_UPDATE_ERROR", v.admin, id, body.status)
                /\ UNCHANGED contacts
           ELSE IF ContactById(id) = {}
           THEN /\ resp' = AuthResp(op, cred, 404, "CONTACT_NOT_FOUND", v.admin, id, body.status)
                /\ UNCHANGED contacts
           ELSE \E doc \in ContactById(id) :
                  /\ contacts' = (contacts \ {doc}) \cup {updateData(doc, body)}
                  /\ resp' = [AuthResp(op, cred, 200, None, v.admin, id, body.status)
                                 EXCEPT !.prev = doc]

ContactReadOps == {"GET /contact/admin", "GET /contact/admin/stats"}

\* GET /api/contact/admin (find, countDocuments) and GET
\* /api/contact/admin/stats (aggregate)
ContactRead(op, cred) ==
    LET v == verifyToken(cred)
    IN  /\ resp' = AuthResp(op, cred, v.code, v.err, v.admin, 0, None)
        /\ UNCHANGED << now, authVars, appVars, msgVars, publicVars, sideVars >>

\* request bodies of POST /api/newsletter/subscribe
NewsBodies ==
    { Body(b) : b \in
        [email : NewsEmails \cup {"Amina@Mail.KE"}, valid : BOOLEAN, status : {None, "bounced"}] }

\* validateNewsletter: Joi lowercases the email and, with stripUnknown, drops
\* the fields the schema does not name; the result is the body the handler sees
validateNewsletter(body) ==
    [body EXCEPT !.status = None, !.email = toLowerCase(body.email)]

\* Newsletter.findOne({ email })
existingSubscription(email) == { n \in newsletters : n.email = email }

\* an insert that no index guards
newsletterEmailFreeAlways(email) == TRUE

\* the unique index on email admits the insert of a document with this email
newsletterEmailFree(email) == existingSubscription(email) = {}

\* resubscribe that starts the record afresh
resubscribeAfresh(doc) == [doc EXCEPT !.status = "active", !.emailsSent = 0]

\* newsletterSchema.methods.resubscribe
resubscribe(doc) == [doc EXCEPT !.status = "active"]

\* newsletterSchema.methods.unsubscribe
unsubscribe(doc) == [doc EXCEPT !.status = "unsubscribed"]

\* new Newsletter({email, name, preferences, source}) with the schema defaults
newNewsletter(value) ==
    [id |-> nextNewsId, email |-> value.email, status |-> "active", emailsSent |-> 0]

\* POST /api/newsletter/subscribe
postSubscribe(body) ==
    LET value == validateNewsletter(body)
        op    == "POST /newsletter/subscribe"
        found == existingSubscription(value.email)
    IN  /\ UNCHANGED << now, authVars, appVars, msgVars, contacts, nextContactId, inflight, galleryVars, reqVars >>
        /\ IF ~value.valid
           THEN /\ resp' = [FormResp(body, op, 400, "VALIDATION", None, 0, body)
                                EXCEPT !.errors = joiErrors(body)]
                /\ UNCHANGED << newsletters, nextNewsId >>
           ELSE IF \E n \in found : n.status = "active"
           THEN /\ resp' = FormResp(body, op, 409, "ALREADY_SUBSCRIBED", None, 0, body)
                /\ UNCHANGED << newsletters, nextNewsId >>
           ELSE IF \E n \in found : n.status = "unsubscribed"
           THEN \E n \in found :
                  /\ newsletters' = (newsletters \ {n}) \cup {resubscribe(n)}
                  /\ resp' = [FormResp(body, op, 200, None, None, n.id, body) EXCEPT !.prev = n]
                  /\ UNCHANGED nextNewsId
           ELSE IF ~newsletterEmailFree(value.email)
           THEN /\ resp' = FormResp(body, op, 409, "DUPLICATE_EMAIL", None, 0, body)
                /\ UNCHANGED << newsletters, nextNewsId >>
           ELSE /\ nextNewsId <= MaxNews
                /\ newsletters' = newsletters \cup {newNewsletter(value)}
                /\ nextNewsId' = nextNewsId + 1
                /\ \E mail \in WelcomeMail :
                     resp' = afterMail(FormResp(body, op, 201, None, None, nextNewsId, body), mail)

\* POST /api/newsletter/subscribe from an address that is under every limit
Subscribe(body) == postSubscribe(body) /\ UNCHANGED limitVars

\* POST /api/newsletter/subscribe up to the answer of Newsletter.findOne: the
\* request waits with what it has seen
SubscribeBegin(body) ==
    LET value == validateNewsletter(body)
        found == existingSubscription(value.email)
        seen  == IF found = {} THEN [id |-> 0, status |-> None]
                 ELSE CHOOSE x \in { [id |-> n.id, status |-> n.status] : n \in found } : TRUE
    IN  /\ value.valid
        /\ Cardinality(inflight) < MaxInflight
        /\ [route |-> "subscribe", email |-> value.email, seen |-> seen] \notin inflight
        /\ inflight' = inflight \cup {[route |-> "subscribe", email |-> value.email, seen |-> seen]}
        /\ resp' = NoResp
        /\ UNCHANGED << now, authVars, appVars, msgVars, publicVars, limitVars, galleryVars, reqVars >>

\* POST /api/newsletter/subscribe from the answer of findOne on: the branch is
\* taken on what was seen, the write meets the store as it is now
SubscribeEnd(r) ==
    LET op == "POST /newsletter/subscribe"
        body == [email |-> r.email, valid |-> TRUE, status |-> None]
    IN  /\ r \in inflight /\ r.route = "subscribe"
        /\ inflight' = inflight \ {r}
        /\ UNCHANGED << now, authVars, appVars, msgVars, contacts, nextContactId, limitVars, galleryVars, reqVars >>
        /\ IF r.seen.status = "active"
           THEN /\ resp' = Resp(op, 409, "ALREADY_SUBSCRIBED", None, 0, body)
                /\ UNCHANGED << newsletters, nextNewsId >>
           ELSE IF r.seen.status = "unsubscribed"
           THEN \E n \in { x \in newsletters : x.id = r.seen.id } :
                  /\ newsletters' = (newsletters \ {n}) \cup {resubscribe(n)}
                  /\ resp' = [Resp(op, 200, None, None, n.id, body) EXCEPT !.prev = n]
                  /\ UNCHANGED nextNewsId
           ELSE IF ~newsletterEmailFree(r.email)
           THEN /\ resp' = Resp(op, 409, "DUPLICATE_EMAIL", None, 0, body)
                /\ UNCHANGED << newsletters, nextNewsId >>
           ELSE /\ nextNewsId <= MaxNews
                /\ newsletters' = newsletters \cup {newNewsletter(r)}
                /\ nextNewsId' = nextNewsId + 1
                /\ \E mail \in WelcomeMail :
                     resp' = afterMail(Resp(op, 201, None, None, nextNewsId, body), mail)

\* POST /api/newsletter/unsubscribe
Unsubscribe(email) ==
    LET op    == "POST /newsletter/unsubscribe"
        found == existingSubscription(email)
    IN  /\ UNCHANGED << now, authVars, appVars, msgVars, contacts, nextContactId, nextNewsId, sideVars >>
        /\ IF found = {}
           THEN /\ resp' = Resp(op, 404, "EMAIL_NOT_FOUND", None, 0, None)
                /\ UNCHANGED newsletters
           ELSE IF \E n \in found : n.status = "unsubscribed"
           THEN /\ resp' = Resp(op, 200, "ALREADY_UNSUBSCRIBED", None, 0, None)
                /\ UNCHANGED newsletters
           ELSE /\ newsletters' = (newsletters \ found) \cup { unsubscribe(n) : n \in found }
                /\ resp' = Resp(op, 200, None, None, 0, None)

\* the mailer sends an issue to an active subscriber:
\* newsletterSchema.methods.trackEmailSent
TrackEmailSent(email) ==
    /\ UNCHANGED << now, authVars, appVars, msgVars, contacts, nextContactId, nextNewsId, sideVars >>
    /\ \E n \in existingSubscription(email) :
         /\ n.status = "active"
         /\ n.emailsSent < MaxEmailsSent
         /\ newsletters' = (newsletters \ {n}) \cup {[n EXCEPT !.emailsSent = @ + 1]}
         /\ resp' = Resp("mailer", 0, None, None, n.id, None)

\* the mailer records that an address bounces: status 'bounced' of the schema
MarkBounced(email) ==
    /\ UNCHANGED << now, authVars, appVars, msgVars, contacts, nextContactId, nextNewsId, sideVars >>
    /\ \E n \in existingSubscription(email) :
         /\ n.status = "active"
         /\ newsletters' = (newsletters \ {n}) \cup {[n EXCEPT !.status = "bounced"]}
         /\ resp' = Resp("mailer", 0, None, None, n.id, None)

-----------------------------------------------------------------------------
(* models/Gallery.js and routes/gallery.js *)

\* multipart bodies of POST /api/gallery: `valid` stands for the fields
\* createImageValidation checks, file for the image part, longTag for a tag of
\* more than 30 characters (tags are only checked to be an array)
GalleryBodies == [valid : BOOLEAN, file : BOOLEAN, longTag : BOOLEAN]

createImageValidation(body) == body.valid

\* new Gallery({..., cloudinaryId: cloudinaryResult.public_id, uploadedBy})
newGallery(body, publicId, adminId) ==
    [id |-> nextGalleryId, cloudinaryId |-> publicId, uploadedBy |-> adminId,
     isActive |-> TRUE, views |-> 0, downloads |-> 0]

\* schema validation of galleryImage.save(): each tag has maxlength 30
gallerySchemaValid(body) == ~body.longTag

\* the unique index on cloudinaryId
cloudinaryIdFree(publicId) == \A g \in gallery : g.cloudinaryId # publicId

\* the errors the upload handler catches: neither the rejection of the upload
\* nor the error of save() has a cloudinaryId property
uploadError == [name |-> "UploadError", cloudinaryId |-> None]
saveError   == [name |-> "ValidationError", cloudinaryId |-> None]

\* the catch block of the upload handler: the destroy calls it makes
cleanupSteps(error) ==
    IF error.cloudinaryId # None
    THEN << [act |-> "destroy", id |-> error.cloudinaryId] >>
    ELSE << >>

\* cloudinary.uploader.destroy(publicId): the host's assets afterwards
destroy(held, publicId, hostOk) == IF hostOk THEN held \ {publicId} ELSE held

\* the host after the destroy calls of steps
destroyAll(held, steps, hostOk) ==
    IF hostOk THEN held \ { steps[i].id : i \in 1 .. Len(steps) } ELSE held

\* what a gallery response echoes: the public id uploaded (0: none), the
\* calls made to the media host and the store in order, whether the host
\* carried out the destroy it was asked for
GalleryNote(uploaded, steps, hostOk) ==
    [uploaded |-> uploaded, steps |-> steps, hostOk |-> hostOk]

\* POST /api/gallery (uploadLimiter allows 20 uploads an hour, more than a
\* run makes)
PostGallery(cred, body, uploadOk, destroyOk) ==
    LET v        == verifyToken(cred)
        op       == "POST /gallery"
        publicId == nextAssetId
        up       == [act |-> "upload", id |-> publicId]
        doc      == newGallery(body, publicId, v.admin)
    IN  /\ UNCHANGED << now, authVars, appVars, msgVars, publicVars, inflight, limitVars, reqVars,
                        viewing >>
        /\ IF ~v.ok
           THEN /\ resp' = AuthResp(op, cred, v.code, v.err, None, 0, GalleryNote(0, << >>, TRUE))
                /\ UNCHANGED galleryVars
           ELSE IF ~createImageValidation(body)
           THEN /\ resp' = AuthResp(op, cred, 400, "VALIDATION", v.admin, 0, GalleryNote(0, << >>, TRUE))
                /\ UNCHANGED galleryVars
           ELSE IF ~body.file
           THEN /\ resp' = AuthResp(op, cred, 400, "NO_FILE", v.admin, 0, GalleryNote(0, << >>, TRUE))
                /\ UNCHANGED galleryVars
           ELSE IF ~uploadOk
           THEN /\ resp' = AuthResp(op, cred, 500, "IMAGE_UPLOAD_ERROR", v.admin, 0,
                                    GalleryNote(0, cleanupSteps(uploadError), destroyOk))
                /\ UNCHANGED galleryVars
           ELSE /\ nextAssetId <= MaxAssets
                /\ nextAssetId' = nextAssetId + 1
                /\ IF gallerySchemaValid(body) /\ cloudinaryIdFree(publicId)
                   THEN /\ assets' = assets \cup {publicId}
                        /\ gallery' = gallery \cup {doc}
                        /\ nextGalleryId' = nextGalleryId + 1
                        /\ resp' = AuthResp(op, cred, 201, None, v.admin, doc.id,
                                            GalleryNote(publicId, << up, [act |-> "save", id |-> doc.id] >>, TRUE))
                   ELSE /\ assets' = destroyAll(assets \cup {publicId}, cleanupSteps(saveError), destroyOk)
                        /\ UNCHANGED << gallery, nextGalleryId >>
                        /\ resp' = AuthResp(op, cred, 500, "IMAGE_UPLOAD_ERROR", v.admin, 0,
                                            GalleryNote(publicId, << up >> \o cleanupSteps(saveError), destroyOk))

GalleryIds == 1 .. MaxAssets

\* Gallery.findById
GalleryById(id) == { g \in gallery : g.id = id }

\* the destroy of the delete handler rethrown instead of caught
destroyRethrown(hostOk) == hostOk

\* the try/catch around destroy in the delete handler: the handler goes on
\* to the local deletion whatever the host answered
destroyCaught(hostOk) == TRUE

\* DELETE /api/gallery/:id
DeleteGallery(cred, id, destroyOk) ==
    LET v  == verifyToken(cred)
        op == "DELETE /gallery/:id"
    IN  /\ UNCHANGED << now, authVars, appVars, msgVars, publicVars, inflight, limitVars,
                        reqVars, nextGalleryId, nextAssetId, viewing >>
        /\ IF ~v.ok
           THEN /\ resp' = AuthResp(op, cred, v.code, v.err, None, 0, GalleryNote(0, << >>, TRUE))
                /\ UNCHANGED << gallery, assets >>
           ELSE IF GalleryById(id) = {}
           THEN /\ resp' = AuthResp(op, cred, 404, "IMAGE_NOT_FOUND", v.admin, id, GalleryNote(0, << >>, TRUE))
                /\ UNCHANGED << gallery, assets >>
           ELSE \E image \in GalleryById(id) :
                  LET remote == [act |-> "destroy", id |-> image.cloudinaryId]
                  IN  /\ assets' = destroy(assets, image.cloudinaryId, destroyOk)
                      /\ IF destroyCaught(destroyOk)
                         THEN /\ gallery' = gallery \ {image}
                              /\ resp' = [AuthResp(op, cred, 200, None, v.admin, id,
                                            GalleryNote(0, << remote, [act |-> "findByIdAndDelete", id |-> id] >>, destroyOk))
                                            EXCEPT !.prev = image]
                         ELSE /\ UNCHANGED gallery
                              /\ resp' = [AuthResp(op, cred, 500, "IMAGE_DELETION_ERROR", v.admin, id,
                                            GalleryNote(0, << remote >>, destroyOk))
                                            EXCEPT !.prev = image]

\* the isActive parameter of the query string of GET /api/gallery
ActiveQueries == {None, "true", "false"}

\* the filter of GET /api/gallery on isActive
listFilter(admin, isActive, g) ==
    IF admin = None THEN g.isActive
    ELSE IF isActive # None THEN g.isActive = (isActive = "true")
    ELSE TRUE

\* GET /api/gallery
GetGallery(cred, isActive) ==
    LET admin == optionalAuth(cred)
    IN  /\ resp' = AuthResp("GET /gallery", cred, 200, None, admin, 0,
                            { g \in gallery : listFilter(admin, isActive, g) })
        /\ UNCHANGED << now, authVars, appVars, msgVars, publicVars, inflight, limitVars,
                        reqVars, galleryVars >>

\* findOne by id alone, for every caller
findOneAnyone(admin, id) == { g \in gallery : g.id = id }

\* Gallery.findOne(filter) of GET /api/gallery/:id
findOneVisible(admin, id) ==
    { g \in gallery : g.id = id /\ (admin = None => g.isActive) }

\* Gallery.findOne({_id, isActive: true}) of POST /api/gallery/:id/download
findOneActive(id) == { g \in gallery : g.id = id /\ g.isActive }

\* incrementViews on the document loaded
incrementViews(image) == [image EXCEPT !.views = @ + 1]

\* incrementDownloads on the document loaded
incrementDownloads(image) == [image EXCEPT !.downloads = @ + 1]

\* document.save() of a loaded document whose path `field` was modified: the
\* stored document gets that path; the collection afterwards
saveField(image, field) ==
    { IF g.id = image.id THEN [g EXCEPT ![field] = image[field]] ELSE g : g \in gallery }

\* GET /api/gallery/:id
GetGalleryItem(cred, id) ==
    LET admin == optionalAuth(cred)
        op    == "GET /gallery/:id"
    IN  /\ UNCHANGED << now, authVars, appVars, msgVars, publicVars, inflight, limitVars,
                        reqVars, nextGalleryId, assets, nextAssetId, viewing >>
        /\ IF findOneVisible(admin, id) = {}
           THEN /\ resp' = AuthResp(op, cred, 404, "IMAGE_NOT_FOUND", admin, id, {})
                /\ UNCHANGED gallery
           ELSE \E image \in findOneVisible(admin, id) :
                  /\ image.views < MaxViews
                  /\ gallery' = saveField(incrementViews(image), "views")
                  /\ resp' = [AuthResp(op, cred, 200, None, admin, id, {incrementViews(image)})
                                EXCEPT !.prev = image]

\* POST /api/gallery/:id/download
DownloadGallery(cred, id) ==
    LET admin == optionalAuth(cred)
        op    == "POST /gallery/:id/download"
    IN  /\ UNCHANGED << now, authVars, appVars, msgVars, publicVars, inflight, limitVars,
                        reqVars, nextGalleryId, assets, nextAssetId, viewing >>
        /\ IF findOneActive(id) = {}
           THEN /\ resp' = AuthResp(op, cred, 404, "IMAGE_NOT_FOUND", admin, id, {})
                /\ UNCHANGED gallery
           ELSE \E image \in findOneActive(id) :
                  /\ image.downloads < MaxViews
                  /\ gallery' = saveField(incrementDownloads(image), "downloads")
                  /\ resp' = [AuthResp(op, cred, 200, None, admin, id, {})
                                EXCEPT !.prev = image]

\* GET /api/gallery/:id up to the answer of Gallery.findOne: the request
\* holds the document it loaded
ViewBegin(cred, id, tag) ==
    LET admin == optionalAuth(cred)
        op    == "GET /gallery/:id"
    IN  /\ \A r \in viewing : r.tag # tag
        /\ UNCHANGED << now, authVars, appVars, msgVars, publicVars, inflight, limitVars,
                        reqVars, gallery, nextGalleryId, assets, nextAssetId >>
        /\ IF findOneVisible(admin, id) = {}
           THEN /\ resp' = AuthResp(op, cred, 404, "IMAGE_NOT_FOUND", admin, id, {})
                /\ UNCHANGED viewing
           ELSE \E image \in findOneVisible(admin, id) :
                  /\ Cardinality(viewing) < MaxInflight
                  /\ viewing' = viewing \cup
                       {[route |-> "view", tag |-> tag, cred |-> cred, image |-> image]}
                  /\ resp' = NoResp

\* GET /api/gallery/:id from image.incrementViews() on: the counter of the
\* loaded document plus one is saved, and the loaded document is sent
ViewEnd(r) ==
    LET admin == optionalAuth(r.cred)
        op    == "GET /gallery/:id"
        image == incrementViews(r.image)
    IN  /\ r \in viewing /\ r.route = "view"
        /\ image.views <= MaxViews
        /\ viewing' = viewing \ {r}
        /\ gallery' = saveField(image, "views")
        /\ resp' = [AuthResp(op, r.cred, 200, None, admin, image.id, {image})
                      EXCEPT !.prev = r.image]
        /\ UNCHANGED << now, authVars, appVars, msgVars, publicVars, inflight, limitVars,
                        reqVars, nextGalleryId, assets, nextAssetId >>

\* POST /api/gallery/:id/download up to the answer of Gallery.findOne
DownloadBegin(cred, id, tag) ==
    LET admin == optionalAuth(cred)
        op    == "POST /gallery/:id/download"
    IN  /\ \A r \in viewing : r.tag # tag
        /\ UNCHANGED << now, authVars, appVars, msgVars, publicVars, inflight, limitVars,
                        reqVars, gallery, nextGalleryId, assets, nextAssetId >>
        /\ IF findOneActive(id) = {}
           THEN /\ resp' = AuthResp(op, cred, 404, "IMAGE_NOT_FOUND", admin, id, {})
                /\ UNCHANGED viewing
           ELSE \E image \in findOneActive(id) :
                  /\ Cardinality(viewing) < MaxInflight
                  /\ viewing' = viewing \cup
                       {[route |-> "download", tag |-> tag, cred |-> cred, image |-> image]}
                  /\ resp' = NoResp

\* POST /api/gallery/:id/download from image.incrementDownloads() on
DownloadEnd(r) ==
    LET admin == optionalAuth(r.cred)
        op    == "POST /gallery/:id/download"
        image == incrementDownloads(r.image)
    IN  /\ r \in viewing /\ r.route = "download"
        /\ image.downloads <= MaxViews
        /\ viewing' = viewing \ {r}
        /\ gallery' = saveField(image, "downloads")
        /\ resp' = [AuthResp(op, r.cred, 200, None, admin, image.id, {})
                      EXCEPT !.prev = r.image]
        /\ UNCHANGED << now, authVars, appVars, msgVars, publicVars, inflight, limitVars,
                        reqVars, nextGalleryId, assets, nextAssetId >>

\* PUT /api/gallery/:id with isActive in the body
PutGallery(cred, id, isActive) ==
    LET v  == verifyToken(cred)
        op == "PUT /gallery/:id"
    IN  /\ UNCHANGED << now, authVars, appVars, msgVars, publicVars, inflight, limitVars,
                        reqVars, nextGalleryId, assets, nextAssetId, viewing >>
        /\ IF ~v.ok
           THEN /\ resp' = AuthResp(op, cred, v.code, v.err, None, 0, {})
                /\ UNCHANGED gallery
           ELSE IF GalleryById(id) = {}
           THEN /\ resp' = AuthResp(op, cred, 404, "IMAGE_NOT_FOUND", v.admin, id, {})
                /\ UNCHANGED gallery
           ELSE \E image \in GalleryById(id) :
                  /\ gallery' = saveField([image EXCEPT !.isActive = isActive], "isActive")
                  /\ resp' = [AuthResp(op, cred, 200, None, v.admin, id, {})
                                EXCEPT !.prev = image]

-----------------------------------------------------------------------------
(* Rate limiting: express-rate-limit in front of the public write routes *)

\* createLimiter of routes/applications.js (windowMs in quarter hours)
applicationLimiter ==
    [windowMs |-> 4, max |-> 3, code |-> "APPLICATION_RATE_LIMIT_EXCEEDED"]

\* createLimiter of routes/messages.js
messageLimiter ==
    [windowMs |-> 1, max |-> 5, code |-> "MESSAGE_RATE_LIMIT_EXCEEDED"]

\* contactLimiter, shared by POST /contact and POST /contact/tour
contactLimiter ==
    [windowMs |-> 1, max |-> 3, code |-> "RATE_LIMIT_EXCEEDED"]

\* newsletterLimiter of POST /newsletter/subscribe
newsletterLimiter ==
    [windowMs |-> 1, max |-> 2, code |-> "RATE_LIMIT_EXCEEDED"]

Limiters == {"applications", "messages", "contact", "newsletter"}

\* the limiter in front of each group of routes
limiterOf(l) ==
    CASE l = "applications" -> applicationLimiter
      [] l = "messages"     -> messageLimiter
      [] l = "contact"      -> contactLimiter
      [] l = "newsletter"   -> newsletterLimiter

\* the collection the handlers behind a limiter work on
storeBehind(l) ==
    CASE l = "applications" -> "applications"
      [] l = "messages"     -> "messages"
      [] l = "contact"      -> "contacts"
      [] l = "newsletter"   -> "newsletters"

\* the entry of the tracked address is live until its window ends
windowOpen(l) == hits[l].count > 0 /\ quarter < hits[l].resetAt

\* the store's increment: the entry after this request is counted; a new
\* window ends at resetAt
increment(l, resetAt) ==
    IF windowOpen(l) THEN [hits[l] EXCEPT !.count = @ + 1]
    ELSE [count |-> 1, resetAt |-> resetAt]

\* the limiter's test on the counted request: over max is refused
limitReached(hit, options) == hit.count > options.max

\* optionalAuth runs on every request before any limiter: a request whose
\* bearer token verifies makes it look the account up
optionalAuthLookups(cred) ==
    IF cred.kind = "jwt" /\ now < cred.exp THEN {"admins"} ELSE {}

\* one request of the tracked address to a route behind limiter l:
\* optionalAuth, then the limiter, then (when let through) the handler.
\* The end of a new window is the store's next reset, at most windowMs ahead.
Limited(l, op, cred, handler) ==
    \E resetAt \in (quarter + 1) .. (quarter + limiterOf(l).windowMs) :
      LET hit == increment(l, resetAt)
      IN  /\ hit.count <= limiterOf(l).max + MaxRefused
          /\ hits' = [hits EXCEPT ![l] = hit]
          /\ UNCHANGED quarter
          /\ IF limitReached(hit, limiterOf(l))
             THEN /\ resp' = Resp(op, 429, limiterOf(l).code, None, 0, None)
                  /\ touched' = optionalAuthLookups(cred)
                  /\ UNCHANGED << now, authVars, appVars, msgVars, publicVars, inflight, galleryVars, reqVars >>
             ELSE /\ handler
                  /\ touched' = optionalAuthLookups(cred) \cup
                                  (IF resp'.code = 400 THEN {} ELSE {storeBehind(l)})

\* a quarter of an hour passes
Wait ==
    /\ quarter < MaxQuarters
    /\ quarter' = quarter + 1
    /\ resp' = NoResp
    /\ UNCHANGED << now, authVars, appVars, msgVars, publicVars, inflight, galleryVars, reqVars, hits, touched >>

-----------------------------------------------------------------------------
(* middleware/validation.js: sanitizeInput and sanitizeRequest *)

\* strings are sequences of characters; the pieces request strings are made of
Fragments ==
    { << "j", "a", "v", "a", "s", "c", "r", "i", "p", "t", ":" >>,
      << "J", "a", "v", "a", "S", "c", "r", "i", "p", "t", ":" >>,
      << "j", "a", "v", "a" >>,
      << "s", "c", "r", "i", "p", "t", ":" >>,
      << "<" >>,
      << ">" >>,
      << "o" >>,
      << "o", "n", "c", "l", "i", "c", "k", "=" >>,
      << "n", "c", "l", "i", "c", "k", "=" >>,
      << " " >>,
      << "x", "=" >> }

\* a string made of at most n pieces
RECURSIVE Pieces(_)
Pieces(n) ==
    IF n = 0 THEN {<< >>}
    ELSE LET shorter == Pieces(n - 1)
         IN  shorter \cup { f \o t : f \in Fragments, t \in shorter }

Strings == Pieces(MaxPieces)

\* the letter in lower case (flag i of the regular expressions)
toLower(c) ==
    CASE c = "J" -> "j"
      [] c = "S" -> "s"
      [] OTHER   -> c

\* \w of the regular expressions, over the characters of Fragments
WordChars == {"j", "a", "v", "s", "c", "r", "i", "p", "t", "o", "n", "l", "k", "x", "J", "S"}

\* str begins with pattern, letter case aside
startsWith(str, pattern) ==
    /\ Len(str) >= Len(pattern)
    /\ \A i \in 1 .. Len(pattern) : toLower(str[i]) = pattern[i]

dropFirst(str, n) == SubSeq(str, n + 1, Len(str))

\* .replace(/[<>]/g, '')
stripAngles(str) == SelectSeq(str, LAMBDA c : c \notin {"<", ">"})

\* .replace(/javascript:/gi, ''): one scan from the left, each match dropped
\* and the scan resumed after it
RECURSIVE stripProtocol(_)
stripProtocol(str) ==
    IF str = << >> THEN << >>
    ELSE IF startsWith(str, << "j", "a", "v", "a", "s", "c", "r", "i", "p", "t", ":" >>)
    THEN stripProtocol(dropFirst(str, 11))
    ELSE << Head(str) >> \o stripProtocol(Tail(str))

\* the length of the longest run of \w characters at the start of str
RECURSIVE wordRun(_)
wordRun(str) ==
    IF str = << >> \/ Head(str) \notin WordChars THEN 0
    ELSE 1 + wordRun(Tail(str))

\* the length of the match of /on\w+=/i at the start of str, 0 if none:
\* \w+ takes the whole run of word characters, which '=' must follow
handlerMatch(str) ==
    IF ~startsWith(str, << "o", "n" >>) THEN 0
    ELSE LET run == wordRun(dropFirst(str, 2))
         IN  IF run >= 1 /\ Len(str) >= run + 3 /\ str[run + 3] = "="
             THEN run + 3 ELSE 0

\* .replace(/on\w+=/gi, ''): one scan from the left
RECURSIVE stripHandlers(_)
stripHandlers(str) ==
    IF str = << >> THEN << >>
    ELSE IF handlerMatch(str) > 0
    THEN stripHandlers(dropFirst(str, handlerMatch(str)))
    ELSE << Head(str) >> \o stripHandlers(Tail(str))

\* .trim()
RECURSIVE trimStart(_)
trimStart(str) ==
    IF str # << >> /\ Head(str) = " " THEN trimStart(Tail(str)) ELSE str

RECURSIVE trimEnd(_)
trimEnd(str) ==
    IF str # << >> /\ str[Len(str)] = " " THEN trimEnd(SubSeq(str, 1, Len(str) - 1)) ELSE str

trim(str) == trimEnd(trimStart(str))

\* sanitizeInput on a string
sanitizeInput(input) == trim(stripHandlers(stripProtocol(stripAngles(input))))

\* values of a request body: a string, a number, or an object (an array) of values
StringValue(str)    == [kind |-> "string", value |-> str]
NumberValue         == [kind |-> "number", value |-> << >>]
ObjectValue(fields) == [kind |-> "object", value |-> fields]
NoBody              == [kind |-> "undefined", value |-> << >>]

\* sanitizeObject: every string of the object, at any depth, through sanitizeInput
RECURSIVE sanitizeObject(_)
sanitizeObject(obj) ==
    [kind |-> "object",
     value |-> [i \in 1 .. Len(obj.value) |->
                  IF obj.value[i].kind = "string"
                  THEN StringValue(sanitizeInput(obj.value[i].value))
                  ELSE IF obj.value[i].kind = "object"
                  THEN sanitizeObject(obj.value[i])
                  ELSE obj.value[i]]]

\* JSON bodies of a request with the string str at nesting depth 1, 2 or 3
BodyAt(str, depth) ==
    CASE depth = 1 -> ObjectValue(<< StringValue(str), NumberValue >>)
      [] depth = 2 -> ObjectValue(<< NumberValue, ObjectValue(<< StringValue(str) >>) >>)
      [] depth = 3 -> ObjectValue(<< ObjectValue(<< ObjectValue(<< StringValue(str) >>) >>) >>)

\* app.use(sanitizeRequest): the first middleware that looks at req.body
SanitizeRequest(body) ==
    /\ reqBody' = IF body.kind = "undefined" THEN body ELSE sanitizeObject(body)
    /\ resp' = NoResp
    /\ UNCHANGED << now, authVars, appVars, msgVars, publicVars, inflight, limitVars, galleryVars >>

-----------------------------------------------------------------------------
Init ==
    /\ admins = [a \in AdminIds |->
                   [exists |-> TRUE,
                    role |-> IF a = "a1" THEN "super_admin" ELSE "admin",
                    isActive |-> TRUE, isLocked |-> FALSE, loginAttempts |-> 0,
                    lastLogin |-> -1, password |-> "westgate2024"]]
    /\ issued = {}
    /\ now = 0
    /\ applications = {} /\ nextAppId = 1
    /\ messages = {} /\ nextMsgId = 1
    /\ contacts = {} /\ nextContactId = 1
    /\ newsletters = {} /\ nextNewsId = 1
    /\ inflight = {}
    /\ hits = [l \in Limiters |-> [count |-> 0, resetAt |-> 0]]
    /\ quarter = 0
    /\ touched = {}
    /\ gallery = {} /\ nextGalleryId = 1
    /\ assets = {} /\ nextAssetId = 1
    /\ viewing = {}
    /\ reqBody = NoBody
    /\ failStreak = [a \in AdminIds |-> 0]
    /\ numberLog = << >>
    /\ resp = NoResp

\* login, failure counting and lockout
NextLogin ==
    \/ \E u \in LoginNames, p \in Passwords : Login(u, p)
    \/ \E c \in Creds, op \in {"verify-token", "logout"} : AuthRead(op, c)
    \/ \E c \in Creds, p \in Passwords : ChangePassword(c, p, "admin123")
    \/ MigrateAdminPassword
    \/ \E a \in AdminIds : DeactivateAdmin(a)

SpecLogin == Init /\ [][NextLogin]_vars

\* tokens over time, against accounts that are deactivated or removed
NextToken ==
    \/ \E u \in {"admin", "Editor"} : Login(u, "westgate2024")
    \/ Login("admin", "wrongpw")
    \/ \E c \in Creds, op \in {"verify-token", "profile"} : AuthRead(op, c)
    \/ \E c \in Creds : ChangePassword(c, "wrongpw", "admin123")
    \/ \E a \in AdminIds : DeactivateAdmin(a)
    \/ \E a \in AdminIds : DeleteAdmin(a)
    \/ Tick(1, MaxAuthTime)

SpecToken == Init /\ [][NextToken]_vars

\* the application desk: submissions a month apart and deletion
NextApp ==
    \/ Login("admin", "westgate2024")
    \/ \E e \in RawEmails, ok \in BOOLEAN, g \in {"primary", "nursery"} :
         SubmitApplication(PlainApplication(e, ok, g))
    \/ \E c \in Creds, id \in AppIds : DeleteApplication(c, id)
    \/ \E d \in {30, 31} : Tick(d, MaxAppTime)

SpecApp == Init /\ [][NextApp]_vars

\* answering messages: two admins, over time, from every status
NextRespond ==
    \/ \E u \in {"admin", "Editor"} : Login(u, "westgate2024")
    \/ SubmitMessage(PlainMessage)
    \/ \E c \in issued, id \in MsgIds : GetMessage(c, id)
    \/ \E c \in issued, id \in MsgIds :
         UpdateMessage(c, id, ResolveUpdate)
    \/ \E c \in issued, id \in MsgIds, t \in Texts \cup {"hi"} : RespondMessage(c, id, t)
    \/ Tick(1, MaxMsgTime)

SpecRespond == Init /\ [][NextRespond]_vars

\* the general update of messages, with every body
NextUpdate ==
    \/ Login("admin", "westgate2024")
    \/ \E b \in { x \in MsgBodies : x.respondedBy = None /\ x.respondedAt = -1 } :
         SubmitMessage(b)
    \/ \E c \in issued, id \in MsgIds : GetMessage(c, id)
    \/ \E c \in issued \cup {NoCred}, id \in MsgIds,
          b \in { x \in UpdateBodies : x.respondedBy = None /\ x.respondedAt = -1 } :
         UpdateMessage(c, id, b)
    \/ \E c \in issued, id \in MsgIds, t \in Texts : RespondMessage(c, id, t)
    \/ \E c \in issued, id \in MsgIds : DeleteMessage(c, id)

SpecUpdate == Init /\ [][NextUpdate]_vars

\* reading messages: by id, as a list, as statistics, with and without a token
NextRead ==
    \/ \E u \in {"admin", "Editor"} : Login(u, "westgate2024")
    \/ SubmitMessage(PlainMessage)
    \/ \E c \in Creds, id \in MsgIds : GetMessage(c, id)
    \/ \E c \in Creds, op \in {"GET /messages", "GET /messages/stats"} : MessageRead(op, c)
    \/ \E c \in issued, id \in MsgIds :
         UpdateMessage(c, id, ResolveUpdate)
    \/ \E c \in issued, id \in MsgIds : RespondMessage(c, id, "reply one")
    \/ Tick(1, MaxMsgTime)

SpecRead == Init /\ [][NextRead]_vars

\* the review of applications: either admin, every target, over time
NextReview ==
    \/ \E u \in {"admin", "Editor"} : Login(u, "westgate2024")
    \/ SubmitApplication(PlainApplication("amina@mail.ke", TRUE, "primary"))
    \/ \E c \in issued \cup {NoCred}, id \in AppIds, st \in AppStatuses \cup {"archived", None} :
         UpdateApplicationStatus(c, id, st)
    \/ Tick(1, MaxAuthTime)

SpecReview == Init /\ [][NextReview]_vars

\* reviewer and responder stamps: requests whose bodies carry their own
NextStamp ==
    \/ \E u \in {"admin", "Editor"} : Login(u, "westgate2024")
    \/ \E b \in { x \in MsgBodies : x.valid /\ x.status = None /\ x.response = None } :
         SubmitMessage(b)
    \/ \E b \in { x \in AppBodies : /\ x.valid /\ x.status = None /\ x.program = "primary"
                                    /\ x.email = "amina@mail.ke" } :
         SubmitApplication(b)
    \/ \E c \in issued, id \in MsgIds, b \in { x \in UpdateBodies : x.status = None } :
         UpdateMessage(c, id, b)
    \/ \E c \in issued, id \in MsgIds : RespondMessage(c, id, "reply one")
    \/ \E c \in issued, id \in AppIds : UpdateApplicationStatus(c, id, "approved")
    \/ Tick(1, MaxAuthTime)

SpecStamp == Init /\ [][NextStamp]_vars

\* the newsletter list: subscribe, unsubscribe, and the mailer
NextNews ==
    \/ \E b \in { x \in NewsBodies : x.status = None } : Subscribe(b)
    \/ \E e \in NewsEmails : Unsubscribe(e)
    \/ \E e \in NewsEmails : TrackEmailSent(e)
    \/ \E e \in NewsEmails : MarkBounced(e)

SpecNews == Init /\ [][NextNews]_vars

\* the newsletter list with subscribe requests that overlap
NextNewsRace ==
    \/ \E b \in { x \in NewsBodies : x.valid /\ x.status = None } : SubscribeBegin(b)
    \/ \E r \in inflight : SubscribeEnd(r)
    \/ \E e \in NewsEmails : Unsubscribe(e)
    \/ \E e \in NewsEmails : MarkBounced(e)

SpecNewsRace == Init /\ [][NextNewsRace]_vars

\* deletion of stored records by callers of either role, or of none
NextDelete ==
    \/ \E u \in {"admin", "Editor"} : Login(u, "westgate2024")
    \/ \E e \in {"amina@mail.ke", "brian@mail.ke"} :
         SubmitApplication(PlainApplication(e, TRUE, "primary"))
    \/ SubmitMessage(PlainMessage)
    \/ \E c \in Creds, id \in AppIds : DeleteApplication(c, id)
    \/ \E c \in Creds, id \in MsgIds : DeleteMessage(c, id)
    \/ \E a \in AdminIds : DeactivateAdmin(a)

SpecDelete == Init /\ [][NextDelete]_vars

\* the public forms
NextPublic ==
    \/ \E b \in { x \in AppBodies : /\ x.program = "primary" /\ x.email # "Amina@Mail.KE"
                                    /\ x.reviewedBy = None /\ x.reviewedAt = -1 } :
         SubmitApplication(b)
    \/ \E b \in { x \in MsgBodies : x.respondedBy = None /\ x.respondedAt = -1 } :
         SubmitMessage(b)
    \/ \E b \in ContactBodies : SubmitContact(b)
    \/ \E b \in ContactBodies : SubmitTour(b)
    \/ \E b \in NewsBodies : Subscribe(b)
    \/ \E e \in NewsEmails : Unsubscribe(e)

SpecPublic == Init /\ [][NextPublic]_vars

\* the tracked address has sent requests to the routes behind l only
OnlyGroup(l) == \A k \in Limiters \ {l} : hits[k].count = 0

\* the public write routes behind their rate limiters: each run follows the
\* requests of one address to the routes behind one limiter
NextLimit ==
    \/ Login("admin", "westgate2024")
    \/ \E c \in {NoCred} \cup issued, ok \in BOOLEAN :
         /\ OnlyGroup("applications")
         /\ Limited("applications", "POST /applications", c,
                    postApplication(PlainApplication("amina@mail.ke", ok, "primary")))
    \/ \E c \in {NoCred} \cup issued, ok \in BOOLEAN :
         /\ OnlyGroup("messages")
         /\ Limited("messages", "POST /messages", c,
                    postMessage(Body([PlainMessage EXCEPT !.valid = ok])))
    \/ \E c \in {NoCred} \cup issued, ok \in BOOLEAN :
         /\ OnlyGroup("contact")
         /\ Limited("contact", "POST /contact", c,
                    postContact(Body([valid |-> ok, status |-> None])))
    \/ \E c \in {NoCred} \cup issued, ok \in BOOLEAN :
         /\ OnlyGroup("contact")
         /\ Limited("contact", "POST /contact/tour", c,
                    postTour(Body([valid |-> ok, status |-> None])))
    \/ \E c \in {NoCred} \cup issued, ok \in BOOLEAN :
         /\ OnlyGroup("newsletter")
         /\ Limited("newsletter", "POST /newsletter/subscribe", c,
                    postSubscribe(Body([email |-> "amina@mail.ke", valid |-> ok, status |-> None])))
    \/ Wait

SpecLimit == Init /\ [][NextLimit]_vars

\* gallery uploads and deletions with a media host that may fail
NextGallery ==
    \/ Login("admin", "westgate2024")
    \/ \E c \in Creds, b \in GalleryBodies, uploadOk \in BOOLEAN, destroyOk \in BOOLEAN :
         PostGallery(c, b, uploadOk, destroyOk)
    \/ \E c \in Creds, id \in GalleryIds, destroyOk \in BOOLEAN :
         DeleteGallery(c, id, destroyOk)

SpecGallery == Init /\ [][NextGallery]_vars

\* the public routes that send email
NextMail ==
    \/ \E b \in ContactBodies : SubmitContact(b)
    \/ \E b \in ContactBodies : SubmitTour(b)
    \/ \E b \in { x \in NewsBodies : x.status = None } : Subscribe(b)
    \/ \E e \in NewsEmails : Unsubscribe(e)

SpecMail == Init /\ [][NextMail]_vars

\* three of the fields the rules of each public form name
FormFields(op) ==
    CASE op = "POST /applications"          -> {"email", "phone", "city"}
      [] op = "POST /messages"              -> {"email", "subject", "message"}
      [] op = "POST /contact"               -> {"name", "email", "phone"}
      [] op = "POST /contact/tour"          -> {"name", "email", "phone"}
      [] op = "POST /newsletter/subscribe"  -> {"email", "name", "source"}

\* the public forms sent with any of their fields breaking a rule
NextForms ==
    \/ \E bad \in SUBSET FormFields("POST /applications") :
         SubmitApplication(WithBad(PlainApplication("amina@mail.ke", TRUE, "primary"), bad))
    \/ \E bad \in SUBSET FormFields("POST /messages") :
         SubmitMessage(WithBad(PlainMessage, bad))
    \/ \E bad \in SUBSET FormFields("POST /contact") :
         SubmitContact(WithBad([valid |-> TRUE, status |-> None], bad))
    \/ \E bad \in SUBSET FormFields("POST /contact/tour") :
         SubmitTour(WithBad([valid |-> TRUE, status |-> None], bad))
    \/ \E bad \in SUBSET FormFields("POST /newsletter/subscribe"), e \in NewsEmails :
         Subscribe(WithBad([email |-> e, valid |-> TRUE, status |-> None], bad))

SpecForms == Init /\ [][NextForms]_vars

\* requests through the sanitization pass
NextSanitize ==
    \/ \E str \in Strings, depth \in 1 .. 3 : SanitizeRequest(BodyAt(str, depth))
    \/ SanitizeRequest(NoBody)

SpecSanitize == Init /\ [][NextSanitize]_vars

\* a well-formed upload
PlainUpload == [valid |-> TRUE, file |-> TRUE, longTag |-> FALSE]

\* a public route behind optionalAuth, called with every kind of credential
\* while accounts are deactivated and deleted and tokens expire
NextOptional ==
    \/ Login("admin", "westgate2024")
    \/ \E c \in Creds : PostGallery(c, PlainUpload, TRUE, TRUE)
    \/ \E c \in Creds, id \in GalleryIds : PutGallery(c, id, FALSE)
    \/ \E c \in Creds, q \in ActiveQueries : GetGallery(c, q)
    \/ DeactivateAdmin("a1")
    \/ DeleteAdmin("a1")
    \/ Tick(1, MaxAuthTime)

SpecOptional == Init /\ [][NextOptional]_vars

\* the contact desk: submissions, the admin's updates and reads
NextContactAdmin ==
    \/ Login("admin", "westgate2024")
    \/ \E b \in { x \in ContactBodies : x.valid } : SubmitContact(b)
    \/ \E c \in Creds, id \in ContactIds,
          b \in { x \in ContactUpdateBodies :
                    /\ (x.assignedTo = None) = (x.notes = None)
                    /\ (x.responseDate = 7) = (x.status # None)
                    /\ x.notes # None => x.status \in {None, "resolved"} } :
         PutContact(c, id, b)
    \/ \E c \in Creds, op \in ContactReadOps : ContactRead(op, c)
    \/ Tick(1, MaxMsgTime)

SpecContactAdmin == Init /\ [][NextContactAdmin]_vars

\* the life of an application: stored, reviewed, deleted
NextNumber ==
    \/ Login("admin", "westgate2024")
    \/ \E e \in {"amina@mail.ke", "brian@mail.ke"} :
         SubmitApplication(PlainApplication(e, TRUE, "primary"))
    \/ \E c \in issued \cup {NoCred}, id \in AppIds, st \in {"review", "approved", "archived"} :
         UpdateApplicationStatus(c, id, st)
    \/ \E c \in issued, id \in AppIds : DeleteApplication(c, id)
    \/ Tick(1, MaxAuthTime)

SpecNumber == Init /\ [][NextNumber]_vars

\* application submissions that overlap
NextAppRace ==
    \/ \E e \in RawEmails, tag \in 1..MaxInflight :
         ApplyBegin(PlainApplication(e, TRUE, "primary"), tag)
    \/ \E r \in inflight : ApplyCount(r)
    \/ \E r \in inflight : ApplyEnd(r)

SpecAppRace == Init /\ [][NextAppRace]_vars

\* application submissions for every program the form offers, and one it
\* does not
NextPrograms ==
    \/ \E e \in RawEmails, ok \in BOOLEAN, g \in RoutePrograms \cup {"secondary"} :
         SubmitApplication(PlainApplication(e, ok, g))
    \/ Tick(31, MaxAppTime)

SpecPrograms == Init /\ [][NextPrograms]_vars

\* views and downloads of one gallery item by requests that overlap
NextGalleryRace ==
    \/ Login("admin", "westgate2024")
    \/ \E c \in issued : gallery = {} /\ PostGallery(c, PlainUpload, TRUE, TRUE)
    \/ \E c \in {NoCred} \cup issued, id \in GalleryIds, tag \in 1..MaxInflight :
         ViewBegin(c, id, tag)
    \/ \E r \in viewing : ViewEnd(r)
    \/ \E id \in GalleryIds, tag \in 1..MaxInflight : DownloadBegin(NoCred, id, tag)
    \/ \E r \in viewing : DownloadEnd(r)

SpecGalleryRace == Init /\ [][NextGalleryRace]_vars

\* protected routes of every router, called while an account gets locked by
\* failed logins and its token runs out
NextLocked ==
    \/ \E p \in {"westgate2024", "wrongpw"} : Login("admin", p)
    \/ \E c \in Creds, op \in {"verify-token", "profile"} : AuthRead(op, c)
    \/ \E c \in Creds : MessageRead("GET /messages", c)
    \/ \E c \in Creds : PostGallery(c, PlainUpload, TRUE, TRUE)
    \/ \E c \in Creds, id \in GalleryIds : DeleteGallery(c, id, TRUE)
    \/ Tick(1, MaxAuthTime)

SpecLocked == Init /\ [][NextLocked]_vars

\* the public gallery routes with items switched between active and inactive
NextGalleryRead ==
    \/ Login("admin", "westgate2024")
    \/ \E c \in issued : Cardinality(gallery) < 2 /\ PostGallery(c, PlainUpload, TRUE, TRUE)
    \/ \E c \in issued, id \in GalleryIds, active \in BOOLEAN : PutGallery(c, id, active)
    \/ \E c \in Creds, q \in ActiveQueries : GetGallery(c, q)
    \/ \E c \in Creds, id \in GalleryIds : GetGalleryItem(c, id)
    \/ \E c \in Creds, id \in GalleryIds : DownloadGallery(c, id)
    \/ DeactivateAdmin("a1")

SpecGalleryRead == Init /\ [][NextGalleryRead]_vars

-----------------------------------------------------------------------------
(* Properties *)

\* C1: a login request (well-formed, naming the account by username or email)
\* against an account whose lockout flag is set is answered 423 ACCOUNT_LOCKED
\* whatever the password, the right one included; the response carries no
\* token and the account (failure counter, last login) is left as it was.
C1_LockedLoginRefused ==
    [][ \A a \in AdminIds :
          (admins[a].exists /\ admins[a].isLocked /\ resp'.op = "login" /\ resp'.who = a)
          => /\ resp'.code = 423
             /\ resp'.err = "ACCOUNT_LOCKED"
             /\ resp'.token = NoCred
             /\ issued' = issued
             /\ admins' = admins ]_vars

\* a locked account was sent its correct password and was refused
C1_Witness ==
    /\ resp.op = "login" /\ resp.err = "ACCOUNT_LOCKED" /\ resp.note = "pwOk"
    /\ resp.who \in AdminIds /\ admins[resp.who].isLocked

\* C2: after MaxLoginAttempts consecutive wrong-password logins against an
\* active, unlocked account its lockout flag is set; and the failure counter
\* decreases only in a successful login of that account (the password
\* migration script, which is no API operation, aside): failed logins, token
\* verification, logout and password changes never reset it.
C2_LockoutAfterThreshold ==
    /\ [](\A a \in AdminIds : failStreak[a] >= MaxLoginAttempts => admins[a].isLocked)
    /\ [][ \A a \in AdminIds :
             admins'[a].loginAttempts < admins[a].loginAttempts
             => \/ /\ resp'.op = "login" /\ resp'.code = 200 /\ resp'.who = a
                   /\ admins'[a].loginAttempts = 0
                \/ resp'.op = "script" ]_vars

\* the threshold-th consecutive wrong password has just locked the account
C2_Witness ==
    /\ resp.op = "login" /\ resp.err = "INVALID_CREDENTIALS" /\ resp.who = "a1"
    /\ failStreak["a1"] = MaxLoginAttempts
    /\ admins["a1"].isLocked

\* an account that does not pass authentication: no session for it
Refused(r) == r.code # 200 /\ r.token = NoCred

\* C3 (as amended): an account whose active flag is false never passes
\* authentication.  A login naming it is refused without a token, with
\* ACCOUNT_DEACTIVATED, or with ACCOUNT_LOCKED when its lockout flag is set
\* too; an unexpired token of it is answered 401 ACCOUNT_DEACTIVATED by every
\* route behind verifyToken, and 401 ADMIN_NOT_FOUND once the account is gone.
C3_InactiveNeverAuthenticates ==
    /\ (resp.op = "login" /\ resp.who \in AdminIds /\ ~admins[resp.who].isActive)
       => /\ Refused(resp)
          /\ resp.err = IF admins[resp.who].isLocked THEN "ACCOUNT_LOCKED"
                        ELSE "ACCOUNT_DEACTIVATED"
    /\ (resp.cred.kind = "jwt" /\ now < resp.cred.exp)
       => /\ (~admins[resp.cred.adminId].exists)
             => (resp.code = 401 /\ resp.err = "ADMIN_NOT_FOUND")
          /\ (admins[resp.cred.adminId].exists /\ ~admins[resp.cred.adminId].isActive)
             => (resp.code = 401 /\ resp.err = "ACCOUNT_DEACTIVATED")

\* a token issued while the account was active is refused after deactivation
C3_Witness ==
    /\ resp.op = "verify-token" /\ resp.cred.kind = "jwt"
    /\ resp.cred \in issued
    /\ resp.err = "ACCOUNT_DEACTIVATED"

\* C3 as stated: a login against an inactive account is always answered
\* ACCOUNT_DEACTIVATED, and its tokens ACCOUNT_DEACTIVATED or ADMIN_NOT_FOUND
C3_Original ==
    /\ (resp.op = "login" /\ resp.who \in AdminIds /\ ~admins[resp.who].isActive)
       => /\ Refused(resp)
          /\ resp.err = "ACCOUNT_DEACTIVATED"
    /\ (resp.cred.kind = "jwt" /\ now < resp.cred.exp)
       => /\ (~admins[resp.cred.adminId].exists)
             => (resp.code = 401 /\ resp.err = "ADMIN_NOT_FOUND")
          /\ (admins[resp.cred.adminId].exists /\ ~admins[resp.cred.adminId].isActive)
             => (resp.code = 401 /\ resp.err = "ACCOUNT_DEACTIVATED")

DeleteOps == {"DELETE /applications/:id", "DELETE /messages/:id"}

\* the collection a delete route works on
StoreOf(op, apps, msgs) == IF op = "DELETE /applications/:id" THEN apps ELSE msgs

\* C4: DELETE /applications/:id and DELETE /messages/:id change their
\* collection only for a caller whose role is super_admin, and then by
\* removing the addressed record; a caller with a valid token of any other
\* role is answered 403 INSUFFICIENT_PERMISSIONS and a caller without a valid
\* token 401, the collection staying as it was; and requireRole lets
\* super_admin through for every required role, any other role only for the
\* required role itself.
C4_DeleteOnlySuperAdmin ==
    /\ [][ resp'.op \in DeleteOps =>
             LET before == StoreOf(resp'.op, applications, messages)
                 after  == StoreOf(resp'.op, applications', messages')
                 v      == verifyToken(resp'.cred)
             IN  /\ after # before
                    => /\ v.ok /\ admins[v.admin].role = "super_admin"
                       /\ resp'.code = 200
                       /\ after = { d \in before : d.id # resp'.id }
                 /\ (v.ok /\ admins[v.admin].role # "super_admin")
                    => /\ resp'.code = 403
                       /\ resp'.err = "INSUFFICIENT_PERMISSIONS"
                       /\ after = before
                 /\ ~v.ok => (resp'.code = 401 /\ after = before)
                 /\ (v.ok /\ admins[v.admin].role = "super_admin"
                         /\ \E d \in before : d.id = resp'.id)
                    => (resp'.code = 200 /\ after # before) ]_vars
    /\ [](\A role \in Roles, requiredRole \in Roles :
            requireRole(role, requiredRole) <=> (role = "super_admin" \/ role = requiredRole))

\* an admin of role admin asked for the deletion of a stored application
\* and was refused; the application is still stored
C4_Witness ==
    /\ resp.op = "DELETE /applications/:id"
    /\ resp.code = 403
    /\ admins[resp.who].role = "admin"
    /\ AppById(resp.id) # {}

\* C5: within one calendar year the application numbers assigned to the
\* successful submissions are strictly increasing in submission order (and
\* so never repeat), deletions by a super_admin included.
C5_NumbersStrictlyIncreasing ==
    \A i, j \in DOMAIN numberLog :
        (i < j /\ numberLog[i].year = numberLog[j].year)
        => numberLog[i].seq < numberLog[j].seq

\* C6: a submission that passes the route's validation is answered 409
\* DUPLICATE_APPLICATION, nothing being stored, when an application with its
\* email was created within the last 30 days; and when applications with its
\* email are stored but all are more than 30 days old it is accepted (201)
\* and one more application with that email is stored.
C6_DuplicateWindow ==
    [][ (resp'.op = "POST /applications" /\ createApplicationValidation(resp'.note))
        => LET e    == normalizeEmail(resp'.note.email)
               same == { a \in applications : a.email = e }
           IN  /\ (\E a \in same : now - a.createdAt <= DupWindowDays)
                  => /\ resp'.code = 409
                     /\ resp'.err = "DUPLICATE_APPLICATION"
                     /\ applications' = applications
               /\ (same # {} /\ \A a \in same : now - a.createdAt > DupWindowDays)
                  => /\ resp'.code = 201
                     /\ \E d \in applications' \ applications :
                          d.email = e /\ applications' = applications \cup {d} ]_vars

PublicCreateOps ==
    {"POST /applications", "POST /messages", "POST /contact", "POST /contact/tour",
     "POST /newsletter/subscribe"}

\* the record a public endpoint has just created
Created(r) ==
    CASE r.op = "POST /applications" -> AppById(r.id)
      [] r.op = "POST /messages" -> MsgById(r.id)
      [] r.op \in {"POST /contact", "POST /contact/tour"} -> { c \in contacts : c.id = r.id }
      [] OTHER -> { n \in newsletters : n.id = r.id }

\* the status a collection gives a new record
InitialStatus(op) ==
    CASE op = "POST /applications" -> "pending"
      [] op = "POST /messages" -> "unread"
      [] op \in {"POST /contact", "POST /contact/tour"} -> "new"
      [] OTHER -> "active"

\* C7: the record a public endpoint has just created (201) is in the initial
\* status of its collection, whatever the body held, a status field included.
C7_PublicCreateInitialStatus ==
    (resp.op \in PublicCreateOps /\ resp.code = 201)
    => \A d \in Created(resp) : d.status = InitialStatus(resp.op)

\* C8: PUT /messages/:id/respond with a valid token, a response text of
\* admissible length and the id of a stored message succeeds whatever the
\* message's status and whether or not it already has a response, and its one
\* write sets status replied, the response text, the caller as responder and
\* the server time as response timestamp, leaving the rest of the message and
\* every other message as they were.
C8_RespondSetsReply ==
    [][ (/\ resp'.op = "PUT /messages/:id/respond"
         /\ verifyToken(resp'.cred).ok
         /\ resp'.note \in Texts
         /\ MsgById(resp'.id) # {})
        => /\ resp'.code = 200
           /\ \A m \in MsgById(resp'.id) :
                messages' = (messages \ {m}) \cup
                    {[id |-> m.id, status |-> "replied", response |-> resp'.note,
                      respondedBy |-> verifyToken(resp'.cred).admin, respondedAt |-> now]} ]_vars

\* a message answered a day ago by one admin has just been answered again by
\* the other with a different text: text, responder and timestamp are the new ones
C8_Witness ==
    /\ resp.op = "PUT /messages/:id/respond" /\ resp.code = 200
    /\ resp.prev.status = "replied"
    /\ resp.prev.response = "reply one" /\ resp.note = "reply two"
    /\ resp.prev.respondedBy # resp.who
    /\ resp.prev.respondedAt < now
    /\ \E m \in MsgById(resp.id) :
         m.response = "reply two" /\ m.respondedBy = resp.who /\ m.respondedAt = now

\* C9: a response text that is set is changed by no operation but PUT
\* /messages/:id/respond: across every other step a message that stays stored
\* keeps its response, PUT /messages/:id with a response in its body included.
C9_ResponseKeptByUpdate ==
    [][ \A m \in messages : \A m2 \in messages' :
          (m.response # None /\ m2.id = m.id /\ m2.response # m.response)
          => resp'.op = "PUT /messages/:id/respond" ]_vars

\* PUT /messages/:id carried another response text for a message that has
\* one, succeeded, and the stored text is the old one
C9_Witness ==
    /\ resp.op = "PUT /messages/:id" /\ resp.code = 200
    /\ resp.prev.response = "reply one"
    /\ resp.note.response = "reply two"
    /\ \E m \in MsgById(resp.id) : m.response = "reply one"

\* C10: in every reachable state a message whose status is replied has its
\* response text, responder and response timestamp set.
C10_RepliedHasResponse ==
    \A m \in messages :
        m.status = "replied"
        => (m.response # None /\ m.respondedBy # None /\ m.respondedAt >= 0)

MessageReadOps == {"GET /messages/:id", "GET /messages", "GET /messages/stats"}

\* C11: GET /messages/:id with a valid token and the id of a stored message
\* succeeds, turns status unread into read and leaves a message of any other
\* status, and every other field and message, as it was; GET /messages and
\* GET /messages/stats change no message; and a request of these routes
\* without a valid token of an active admin is answered 401 and changes none.
C11_ReadOnFirstFetch ==
    [][ resp'.op \in MessageReadOps =>
          LET v == verifyToken(resp'.cred)
          IN  /\ ~v.ok => (resp'.code = 401 /\ messages' = messages)
              /\ resp'.op # "GET /messages/:id" => messages' = messages
              /\ (v.ok /\ resp'.op = "GET /messages/:id")
                 => /\ MsgById(resp'.id) = {} => messages' = messages
                    /\ \A m \in MsgById(resp'.id) :
                         /\ resp'.code = 200
                         /\ messages' = (messages \ {m}) \cup
                              {[m EXCEPT !.status = IF m.status = "unread" THEN "read"
                                                    ELSE m.status]} ]_vars

\* an admin has just fetched an unread message, which is now read
C11_Witness ==
    /\ resp.op = "GET /messages/:id" /\ resp.code = 200
    /\ resp.prev.status = "unread"
    /\ \E m \in MsgById(resp.id) : m.status = "read"

\* C12: PUT /applications/:id/status with a valid token accepts each of
\* pending, review, approved and rejected for a stored application whatever
\* its current status (200; the status becomes the target, reviewer and
\* review time are stamped, nothing else changes), and refuses every other
\* target, a missing one included, with 400, the applications staying as
\* they were.
C12_AnyStatusToAnyStatus ==
    [][ (resp'.op = "PUT /applications/:id/status" /\ verifyToken(resp'.cred).ok)
        => /\ resp'.note \notin {"pending", "review", "approved", "rejected"}
              => (resp'.code = 400 /\ applications' = applications)
           /\ resp'.note \in {"pending", "review", "approved", "rejected"}
              => \A doc \in AppById(resp'.id) :
                   /\ resp'.code = 200
                   /\ applications' = (applications \ {doc}) \cup
                        {[doc EXCEPT !.status = resp'.note,
                                     !.reviewedBy = verifyToken(resp'.cred).admin,
                                     !.reviewedAt = now]} ]_vars

\* an approved application has just been put back to pending
C12_Witness ==
    /\ resp.op = "PUT /applications/:id/status" /\ resp.code = 200
    /\ resp.prev.status = "approved" /\ resp.note = "pending"
    /\ \E a \in AppById(resp.id) : a.status = "pending"

\* the stamp of a record: who reviewed or answered it, and when
Stamp(kind, d) ==
    IF kind = "application" THEN << d.reviewedBy, d.reviewedAt >>
    ELSE << d.respondedBy, d.respondedAt >>

\* across a step the records of one collection keep their stamps, or take
\* the caller's identity and the server time in a status update or respond
StampsFromServer(kind, before, after, r) ==
    \A d2 \in after :
        LET old == { d \in before : d.id = d2.id }
        IN  /\ old = {} => Stamp(kind, d2) = << None, -1 >>
            /\ \A d \in old :
                 Stamp(kind, d2) # Stamp(kind, d)
                 => /\ r.op \in {"PUT /applications/:id/status", "PUT /messages/:id/respond",
                                 "PUT /messages/:id"}
                    /\ r.code = 200 /\ r.id = d2.id
                    /\ Stamp(kind, d2) = << r.who, now >>

\* C13: a record is created with reviewer (responder) and timestamp unset,
\* and the two change only together, to the identity of the authenticated
\* admin whose status update (respond) wrote the record and the server time
\* of that write; so in every reachable state they are both unset or name
\* the last such write, and never hold a value taken from a request body.
C13_StampsNameLastWriter ==
    [][ /\ StampsFromServer("application", applications, applications', resp')
        /\ StampsFromServer("message", messages, messages', resp') ]_vars

\* C14: a valid POST /newsletter/subscribe for an email (in any letter case)
\* whose record is unsubscribed succeeds and turns that record active, its
\* identifier and counters and every other record as they were, no record
\* being added; for an email whose record is active it is refused with 409
\* ALREADY_SUBSCRIBED and the records stay as they were.
C14_ResubscribeReactivates ==
    [][ (resp'.op = "POST /newsletter/subscribe" /\ resp'.note.valid)
        => \A n \in newsletters :
             n.email = toLowerCase(resp'.note.email)
             => /\ n.status = "unsubscribed"
                   => /\ resp'.code = 200
                      /\ newsletters' = (newsletters \ {n}) \cup
                           {[id |-> n.id, email |-> n.email, status |-> "active",
                             emailsSent |-> n.emailsSent]}
                /\ n.status = "active"
                   => /\ resp'.code = 409 /\ resp'.err = "ALREADY_SUBSCRIBED"
                      /\ newsletters' = newsletters ]_vars

\* a subscriber who had been sent an issue and had unsubscribed has just
\* subscribed again: the same record is active, its counter kept
C14_Witness ==
    /\ resp.op = "POST /newsletter/subscribe" /\ resp.code = 200
    /\ resp.prev.status = "unsubscribed" /\ resp.prev.emailsSent > 0
    /\ \E n \in newsletters :
         /\ n.id = resp.prev.id /\ n.status = "active"
         /\ n.emailsSent = resp.prev.emailsSent
    /\ Cardinality({ n \in newsletters : n.email = resp.prev.email }) = 1

C16_RateLimitWindow ==
    [][ \A l \in Limiters :
          hits'[l] # hits[l] =>
            /\ (windowOpen(l) /\ hits[l].count >= limiterOf(l).max)
                 => /\ resp'.code = 429
                    /\ touched' = {}
                    /\ admins' = admins /\ applications' = applications
                    /\ messages' = messages /\ contacts' = contacts
                    /\ newsletters' = newsletters
            /\ ~windowOpen(l) => resp'.code # 429 ]_vars

\* C17: whenever POST /gallery has uploaded an asset to the media host and
\* then stored no gallery record, it answers 500 after having asked the host
\* once to destroy the asset it uploaded, and the asset stays on the host only
\* if that destroy failed.
C17_UploadCompensated ==
    [][ (resp'.op = "POST /gallery" /\ resp'.note.uploaded # 0 /\ gallery' = gallery)
          => /\ resp'.code = 500
             /\ resp'.note.steps = << [act |-> "upload", id |-> resp'.note.uploaded],
                                      [act |-> "destroy", id |-> resp'.note.uploaded] >>
             /\ resp'.note.hostOk => resp'.note.uploaded \notin assets' ]_vars

\* C18: DELETE /gallery/:id by a caller whose token verifies, on an item
\* that exists, answers 200 and leaves no record with that id, whether or not
\* the media host carried out the destroy; the handler asks the host exactly
\* once, for the item's asset id, and does so before the local deletion.
C18_DeleteBestEffortRemote ==
    [][ (resp'.op = "DELETE /gallery/:id" /\ verifyToken(resp'.cred).ok
           /\ GalleryById(resp'.id) # {})
          => \E image \in GalleryById(resp'.id) :
               /\ resp'.code = 200
               /\ \A g \in gallery' : g.id # resp'.id
               /\ resp'.note.steps = << [act |-> "destroy", id |-> image.cloudinaryId],
                                        [act |-> "findByIdAndDelete", id |-> image.id] >>
               /\ resp'.note.hostOk => image.cloudinaryId \notin assets' ]_vars

\* an item has just been deleted although the media host failed to destroy
\* its asset: the record is gone, the asset is still on the host
C18_Witness ==
    /\ resp.op = "DELETE /gallery/:id" /\ resp.code = 200
    /\ ~resp.note.hostOk
    /\ resp.prev.cloudinaryId \in assets
    /\ \A g \in gallery : g.id # resp.id

\* C19: POST /contact, POST /contact/tour and POST /newsletter/subscribe for a
\* new address, with a valid body, answer 201 and leave the new record in
\* its collection whatever the email sends did, every send failing included.
C19_MailNeverFailsRequest ==
    [][ /\ (resp'.op \in {"POST /contact", "POST /contact/tour"} /\ resp'.mail # << >>)
           => /\ resp'.code = 201
              /\ \E c \in contacts' : c.id = resp'.id /\ c \notin contacts
        /\ (resp'.op = "POST /newsletter/subscribe" /\ resp'.mail # << >>)
           => /\ resp'.code = 201
              /\ \E n \in newsletters' : n.id = resp'.id /\ n \notin newsletters ]_vars

\* a tour request has just been stored and answered 201 although its first
\* send failed
C19_Witness ==
    /\ resp.op = "POST /contact/tour" /\ resp.code = 201
    /\ resp.mail = << "failed" >>
    /\ \E c \in contacts : c.id = resp.id /\ c.inquiryType = "tour"

\* C20: a request to a public write route (applications, messages, contact,
\* contact/tour, newsletter subscribe) whose body breaks the rules of k >= 1
\* fields is answered 400 with exactly k error entries, one for each of
\* those fields, each with a field name and a message, and it changes no
\* collection and sends no email.
C20_OneEntryPerViolatedField ==
    [][ (resp'.op \in PublicCreateOps /\ resp'.bad # {})
          => /\ resp'.code = 400
             /\ Cardinality(resp'.errors) = Cardinality(resp'.bad)
             /\ { e.field : e \in resp'.errors } = resp'.bad
             /\ \A e \in resp'.errors : e.message # None
             /\ resp'.mail = << >>
             /\ UNCHANGED << applications, messages, contacts, newsletters >> ]_vars

\* the strings of a body value, at any depth
RECURSIVE StringsOf(_)
StringsOf(v) ==
    IF v.kind = "string" THEN {v.value}
    ELSE IF v.kind = "object"
    THEN UNION { StringsOf(v.value[i]) : i \in 1 .. Len(v.value) }
    ELSE {}

\* pattern occurs in str, letter case aside
Contains(str, pattern) ==
    \E i \in 0 .. Len(str) : startsWith(dropFirst(str, i), pattern)

\* C21: after the sanitization pass no string of the request body, at any
\* depth, contains '<' or '>', 'javascript:' in any letter case, or a
\* substring on<word>= ; and sanitizing the body again changes nothing.
C21_SanitizedIsClean ==
    /\ \A str \in StringsOf(reqBody) :
         /\ \A i \in 1 .. Len(str) : str[i] \notin {"<", ">"}
         /\ ~Contains(str, << "j", "a", "v", "a", "s", "c", "r", "i", "p", "t", ":" >>)
         /\ \A i \in 0 .. Len(str) : handlerMatch(dropFirst(str, i)) = 0
    /\ reqBody.kind = "object" => sanitizeObject(reqBody) = reqBody

\* the public routes that use what optionalAuth attached
OptionalAuthOps == {"GET /gallery", "GET /gallery/:id", "POST /gallery/:id/download"}

\* C22: a request to a route behind optional authentication is never answered
\* with an authentication error; it goes on with the admin's identity when
\* its token is the unexpired token of an existing, active account, and as
\* anonymous in every other case (no header, invalid token, expired token,
\* account deleted, account deactivated).
C22_OptionalAuthNeverRefuses ==
    [][ resp'.op \in OptionalAuthOps
          => /\ resp'.code \notin {401, 403}
             /\ resp'.who = IF verifyToken(resp'.cred).ok
                            THEN verifyToken(resp'.cred).admin ELSE None ]_vars

\* the token of an account deactivated since has just fetched the gallery:
\* answered 200 as an anonymous caller, the inactive item left out
C22_Witness ==
    /\ resp.op = "GET /gallery" /\ resp.code = 200
    /\ resp.cred.kind = "jwt" /\ now < resp.cred.exp
    /\ admins[resp.cred.adminId].exists /\ ~admins[resp.cred.adminId].isActive
    /\ resp.who = None
    /\ \E g \in gallery : ~g.isActive
    /\ \A g \in resp.note : g.isActive

\* C23: a request to a protected route whose token is unexpired and belongs
\* to an existing, active account passes verification as that account even
\* when the account's lockout flag is set; once the token has expired it is
\* refused 401; and a login for a locked account is refused 423 without a
\* token.
C23_LockoutNotRecheckedOnVerify ==
    [][ /\ (resp'.cred.kind = "jwt" /\ resp'.op \notin OptionalAuthOps)
           => IF now >= resp'.cred.exp
              THEN resp'.code = 401 /\ resp'.err = "TOKEN_EXPIRED"
              ELSE (/\ admins[resp'.cred.adminId].exists
                    /\ admins[resp'.cred.adminId].isActive
                    /\ admins[resp'.cred.adminId].isLocked)
                   => /\ resp'.code \notin {401, 403, 423}
                      /\ resp'.who = resp'.cred.adminId
        /\ \A a \in AdminIds :
             (resp'.op = "login" /\ resp'.who = a /\ admins[a].isLocked)
             => resp'.code = 423 /\ resp'.token = NoCred /\ issued' = issued ]_vars

\* an account locked after its token was issued has just used that token
\* on a protected route and passed
C23_Witness ==
    /\ resp.op = "profile" /\ resp.code = 200
    /\ resp.cred.kind = "jwt" /\ resp.who = resp.cred.adminId
    /\ admins[resp.who].isLocked

\* C24: a successful PUT /contact/admin/:id with status contacted leaves the
\* contact with status contacted and a response date equal to the server
\* time of the update, whatever date the body carries; one with status
\* follow-up or resolved sets that status and keeps the response date the
\* contact had; GET /contact/admin and GET /contact/admin/stats leave every
\* contact as it was.
C24_ContactedStampsResponseDate ==
    [][ /\ (resp'.op = "PUT /contact/admin/:id" /\ resp'.code = 200)
           => \E c \in contacts' :
                /\ c.id = resp'.id
                /\ contacts' \ {c} = contacts \ {resp'.prev}
                /\ resp'.note = "contacted"
                   => c.status = "contacted" /\ c.responseDate = now
                /\ resp'.note \in {"follow-up", "resolved"}
                   => c.status = resp'.note /\ c.responseDate = resp'.prev.responseDate
        /\ resp'.op \in ContactReadOps => contacts' = contacts ]_vars

\* a contact stamped on an earlier day has just been moved to follow-up
C24_Witness ==
    /\ resp.op = "PUT /contact/admin/:id" /\ resp.code = 200
    /\ resp.note = "follow-up"
    /\ resp.prev.status = "contacted"
    /\ resp.prev.responseDate >= 0 /\ resp.prev.responseDate < now
    /\ \E c \in contacts : c.id = resp.id /\ c.status = "follow-up"

\* the number no application has: the value of the field before the first
\* save
NoNumber == [year |-> 0, seq |-> 0]

\* C25: an application gets its number in the step that stores it, and no
\* later step (status update, deletion of another application, any request)
\* changes the number of an application that stays stored.
C25_NumberSetOnceAtCreation ==
    [][ /\ \A a \in applications, b \in applications' :
             a.id = b.id => b.applicationNumber = a.applicationNumber
        /\ \A b \in applications' :
             (\A a \in applications : a.id # b.id)
             => /\ b.applicationNumber # NoNumber
                /\ resp'.op = "POST /applications" /\ resp'.code = 201 ]_vars

\* a status update has just been saved on an application while the count
\* the hook would use no longer gives the number the application has
C25_Witness ==
    /\ resp.op = "PUT /applications/:id/status" /\ resp.code = 200
    /\ \E a \in applications :
         /\ a.id = resp.id /\ a.status # resp.prev.status
         /\ a.applicationNumber = resp.prev.applicationNumber
         /\ a.applicationNumber # nextApplicationNumber

\* C26: a valid submission that overlaps another one with a different email,
\* neither email being stored, is answered 201 and stored under a number no
\* other application has.
C26_ConcurrentDistinctEmailsStored ==
    [][ \A r \in applying :
          (/\ r \notin inflight' /\ resp'.op = "POST /applications"
           /\ resp'.code # 409
           /\ \A a \in applications : a.email # normalizeEmail(r.body.email)
           /\ \A q \in applying \ {r} :
                normalizeEmail(q.body.email) # normalizeEmail(r.body.email))
          => /\ resp'.code = 201
             /\ \E d \in applications' \ applications :
                  /\ d.id = resp'.id /\ d.email = normalizeEmail(r.body.email)
                  /\ \A a \in applications : a.applicationNumber # d.applicationNumber ]_vars

\* C27: at no time are two applications stored that have the same email and
\* were created within 30 days of each other, whatever the overlap of the
\* requests that stored them.
C27_NoDuplicateUnderConcurrency ==
    \A a, b \in applications :
        (a.id # b.id /\ a.email = b.email)
        => \/ a.createdAt - b.createdAt > DupWindowDays
           \/ b.createdAt - a.createdAt > DupWindowDays

\* C28: a POST /applications that passes the route's validation and finds no
\* application with its email in the last 30 days is answered 201 and one
\* application with its email and program is added to the store.
C28_ValidatedIsStored ==
    [][ (/\ resp'.op = "POST /applications"
         /\ createApplicationValidation(resp'.note)
         /\ existingApp(normalizeEmail(resp'.note.email)) = {})
        => /\ resp'.code = 201
           /\ \E d \in applications' \ applications :
                /\ d.email = normalizeEmail(resp'.note.email)
                /\ d.program = resp'.note.program
                /\ applications' = applications \cup {d} ]_vars

GalleryReadOps == {"GET /gallery", "GET /gallery/:id", "POST /gallery/:id/download"}

OtherItems(G, id) == { g \in G : g.id # id }

\* C30: every step that answers GET /gallery/:id with 200 raises the stored
\* view counter of that item by exactly one and changes nothing else, every
\* step that answers POST /gallery/:id/download with 200 does the same for
\* the download counter, and no other step of these requests changes an
\* item; so n successful requests, however they overlap, add exactly n.
C30_CountersCountEveryRequest ==
    [][ /\ (resp'.op = "GET /gallery/:id" /\ resp'.code = 200)
           => \E g \in gallery :
                /\ g.id = resp'.id
                /\ gallery' = OtherItems(gallery, g.id) \cup {[g EXCEPT !.views = @ + 1]}
        /\ (resp'.op = "POST /gallery/:id/download" /\ resp'.code = 200)
           => \E g \in gallery :
                /\ g.id = resp'.id
                /\ gallery' = OtherItems(gallery, g.id) \cup {[g EXCEPT !.downloads = @ + 1]}
        /\ (viewing' # viewing /\ resp'.code # 200) => gallery' = gallery ]_vars

=============================================================================
